---------------------------- MODULE Spec2Model ----------------------------
(***************************************************************************)
(* A model of the spacearth-dtn node: the stream transport (receiver and   *)
(* dialer), and the file-backed bundle store.                               *)
(*                                                                         *)
(*   SpecServer  one connection of the TCP receiver (handle_connection)    *)
(*               fed by a peer that sends frames, partial frames, closes   *)
(*               or resets the connection.                                 *)
(*   SpecStore   the operations of BundleStore on one store directory and  *)
(*               one dispatched directory, called concurrently;            *)
(*               SpecCleanupRace runs cleanup_expired step by step beside  *)
(*               them while the clock advances.                            *)
(*   SpecDialer  one activation of the TCP dialer against a receiver that  *)
(*               answers each frame in any way, while another actor may    *)
(*               remove files from the store.                              *)
(***************************************************************************)
EXTENDS Integers, Sequences, FiniteSets, TLC

(***************************************************************************)
(* Bounds of the model.                                                    *)
(***************************************************************************)
\* frames a peer sends on one connection
MaxFrames == 2
\* peers in a candidate list
MaxPeers == 3
\* entries added to a routing table
MaxRoutes == 2
\* forwarding attempts counted on a descriptor
MaxAttempts == 2
\* register calls made on one manager
MaxCalls == 3
\* notify_receive calls made on one manager
MaxNotify == 3
\* the last value of the wall clock (seconds)
MaxNow == 4
\* connections peers open towards one listener
MaxConns == 2
\* inserts that are in progress on one store directory at the same time
MaxWriters == 2
\* the longest short count of bytes a failed write is taken to leave, next to
\* the count one byte short of the whole
MaxPartial == 1
\* complete frames a peer writes on one of these connections
MaxConnFrames == 1

(***************************************************************************)
(* Bundles.  An EID is a string, modelled as a sequence of characters.     *)
(***************************************************************************)
DEFAULT_VERSION == 7
\* the lifetime Bundle::new gives a bundle, in seconds
NEW_LIFETIME == 3600

EidA == <<"a">>
EidB == <<"b">>
\* EIDs that contain the separator of the identifier string
EidAB == <<"a", ":", "b">>
EidBB == <<"b", ":", "b">>
ReportNone == <<"n">>

MkBundle(src, dst, rpt, ts, life, payload) ==
    [version |-> DEFAULT_VERSION, source |-> src, destination |-> dst,
     report_to |-> rpt, creation_timestamp |-> ts, lifetime |-> life,
     payload |-> payload]

\* the bundles a peer puts on the wire
WireB1 == MkBundle(EidA, EidB, ReportNone, 1, 2, <<1>>)
WireB2 == MkBundle(EidB, EidA, ReportNone, 2, 1, <<>>)
WireBundles == {WireB1, WireB2}

\* the bundles of the store: StoreB1x has StoreB1's version, source, destination
\* and creation_timestamp, and another report_to, lifetime and payload
StoreB1 == MkBundle(EidA, EidB, ReportNone, 1, 1, <<1>>)
StoreB1x == MkBundle(EidA, EidB, EidA, 1, 3, <<2>>)
StoreB2 == MkBundle(EidB, EidA, ReportNone, 2, 1, <<3>>)
StoreB3 == MkBundle(EidA, EidA, ReportNone, 1, 2, <<>>)
StoreBundles == {StoreB1, StoreB1x, StoreB2, StoreB3}

(***************************************************************************)
(* Bytes, the length prefix and the binary encoding of a bundle.           *)
(* The encoding keeps CBOR's shape for the values serde_cbor writes (map   *)
(* headers, text strings 0x60+n, arrays 0x80+n, small unsigned integers as *)
(* one byte) and leaves out the field names.                               *)
(***************************************************************************)
\* `len as u32`.  The cast keeps every value below 2^32; the integers of the
\* model checker end at 2^31 - 1, and every length of the model lies far below
\* that, where the cast changes nothing.
U32(n) == n % 2147483647

ToBeBytes(n) ==
    << (n \div 16777216) % 256, (n \div 65536) % 256, (n \div 256) % 256, n % 256 >>

\* u32::from_be_bytes, exact for a first byte below 128 (see U32)
FromBeBytes(b) == b[1] * 16777216 + b[2] * 65536 + b[3] * 256 + b[4]

Chars == {"a", "b", "n", ":"}

CharCode(c) ==
    CASE c = "a" -> 97
      [] c = "b" -> 98
      [] c = "n" -> 110
      [] c = ":" -> 58

CharOf(code) == CHOOSE c \in Chars : CharCode(c) = code

IsCharCode(code) == \E c \in Chars : CharCode(c) = code

EncText(s) == <<96 + Len(s)>> \o [i \in 1..Len(s) |-> CharCode(s[i])]

EncArray(p) == <<128 + Len(p)>> \o p

Encode(b) ==
    <<162, 166, b.version>> \o EncText(b.destination) \o EncText(b.source)
        \o EncText(b.report_to) \o <<b.creation_timestamp, b.lifetime>>
        \o EncArray(b.payload)

\* a text string starting at pos: [ok, val, next]
TextAt(bytes, pos) ==
    IF pos > Len(bytes) \/ bytes[pos] < 96 \/ bytes[pos] > 119
    THEN [ok |-> FALSE, val |-> <<>>, next |-> pos]
    ELSE LET n == bytes[pos] - 96 IN
         IF pos + n > Len(bytes) \/ \E i \in 1..n : ~IsCharCode(bytes[pos + i])
         THEN [ok |-> FALSE, val |-> <<>>, next |-> pos]
         ELSE [ok |-> TRUE, val |-> [i \in 1..n |-> CharOf(bytes[pos + i])],
               next |-> pos + n + 1]

\* an array of small integers starting at pos and ending the input
ArrayAt(bytes, pos) ==
    IF pos > Len(bytes) \/ bytes[pos] < 128 \/ bytes[pos] > 151
    THEN [ok |-> FALSE, val |-> <<>>]
    ELSE LET n == bytes[pos] - 128 IN
         IF pos + n # Len(bytes) \/ \E i \in 1..n : bytes[pos + i] > 23
         THEN [ok |-> FALSE, val |-> <<>>]
         ELSE [ok |-> TRUE, val |-> [i \in 1..n |-> bytes[pos + i]]]

DecodeError == [ok |-> FALSE, val |-> <<>>]

\* serde_cbor::from_slice::<Bundle>: [ok, val]
Decode(bytes) ==
    IF Len(bytes) < 3 \/ bytes[1] # 162 \/ bytes[2] # 166 \/ bytes[3] > 23
    THEN DecodeError
    ELSE LET d == TextAt(bytes, 4) IN
      IF ~d.ok THEN DecodeError
      ELSE LET s == TextAt(bytes, d.next) IN
        IF ~s.ok THEN DecodeError
        ELSE LET r == TextAt(bytes, s.next) IN
          IF ~r.ok \/ r.next + 1 > Len(bytes)
             \/ bytes[r.next] > 23 \/ bytes[r.next + 1] > 23
          THEN DecodeError
          ELSE LET p == ArrayAt(bytes, r.next + 2) IN
            IF ~p.ok THEN DecodeError
            ELSE [ok |-> TRUE,
                  val |-> [version |-> bytes[3], source |-> s.val,
                           destination |-> d.val, report_to |-> r.val,
                           creation_timestamp |-> bytes[r.next],
                           lifetime |-> bytes[r.next + 1],
                           payload |-> p.val]]

\* the sender's frame for an encoded payload
Frame(encoded) == ToBeBytes(U32(Len(encoded))) \o encoded

\* payloads that are no bundle: nothing, a lone break byte, a cut encoding
GarbagePayloads == { <<>>, <<255>>, SubSeq(Encode(WireB1), 1, 5) }

WirePayloads == {Encode(b) : b \in WireBundles} \cup GarbagePayloads

AckOK == <<79, 75>>
AckERROR == <<69, 82, 82, 79, 82>>

NoFiles == [x \in {} |-> <<>>]
NoBundle == [version |-> 0]

(***************************************************************************)
(* The store's pure parts: identifiers, directories as maps from           *)
(* identifier to file bytes, loading, expiry.                              *)
(***************************************************************************)
Digit(n) ==
    CASE n = 0 -> "0" [] n = 1 -> "1" [] n = 2 -> "2" [] n = 3 -> "3"
      [] n = 4 -> "4" [] n = 5 -> "5" [] n = 6 -> "6" [] n = 7 -> "7"
      [] n = 8 -> "8" [] n = 9 -> "9"

RECURSIVE FmtNat(_)
\* format!("{}", n) of an unsigned integer
FmtNat(n) == IF n < 10 THEN <<Digit(n)>> ELSE FmtNat(n \div 10) \o <<Digit(n % 10)>>

\* format!("{}:{}:{}:{}", version, source, destination, creation_timestamp)
IdStr(b) ==
    FmtNat(b.version) \o <<":">> \o b.source \o <<":">> \o b.destination
        \o <<":">> \o FmtNat(b.creation_timestamp)

\* format!("{:x}", Sha256::digest(s)): the digest is taken to be free of
\* collisions, and no digest is a prefix of another (all have 64 digits)
Sha256Hex(str) == str \o <<"$">>

\* an identifier that also covers the lifetime
filename_for_WithLifetime(b) == Sha256Hex(IdStr(b) \o <<":">> \o FmtNat(b.lifetime))

\* the file stem of filename_for(bundle)
filename_for(b) == Sha256Hex(IdStr(b))

Put(dir, id, bytes) == [x \in DOMAIN dir \cup {id} |-> IF x = id THEN bytes ELSE dir[x]]

Remove(dir, id) == [x \in DOMAIN dir \ {id} |-> dir[x]]

\* the file of id in dir, if any: <<bytes>> or <<>>
FileOf(dir, id) == IF id \in DOMAIN dir THEN <<dir[id]>> ELSE <<>>

\* list(): the identifiers, in an order of the directory scan
list(dir) ==
    {order \in [1..Cardinality(DOMAIN dir) -> DOMAIN dir] :
        \A i, j \in DOMAIN order : order[i] = order[j] => i = j}

\* load(id): fs::read, then serde_cbor::from_slice
load(dir, id) ==
    IF id \notin DOMAIN dir THEN [ok |-> FALSE, err |-> "NotFound", val |-> NoBundle]
    ELSE LET d == Decode(dir[id]) IN
         IF d.ok THEN [ok |-> TRUE, err |-> "", val |-> d.val]
         ELSE [ok |-> FALSE, err |-> "Decode", val |-> NoBundle]

StartsWith(id, partial) ==
    Len(partial) <= Len(id) /\ SubSeq(id, 1, Len(partial)) = partial

\* find_by_partial_id: the identifiers the scan may meet first
find_by_partial_id(dir, partial) == {id \in DOMAIN dir : StartsWith(id, partial)}

\* load_by_partial_id: the results it may return
load_by_partial_id(dir, partial) ==
    IF find_by_partial_id(dir, partial) = {}
    THEN {[ok |-> FALSE, err |-> "NotFound", val |-> NoBundle]}
    ELSE {load(dir, id) : id \in find_by_partial_id(dir, partial)}

\* the file-system calls of the store that can fail; "none": no call fails
Faults == {"none", "create_dir", "read_dir", "read", "write", "rename", "remove"}

\* list() when the call f fails: fs::read_dir(&self.dir)? returns the error
list_io(dir, f) ==
    IF f = "read_dir"
    THEN [ok |-> FALSE, err |-> "Io", io |-> f, ids |-> {}]
    ELSE [ok |-> TRUE, err |-> "", io |-> "", ids |-> list(dir)]

\* load(id) when the call f fails: fs::read(path)? returns the error
load_io(dir, id, f) ==
    IF f = "read" /\ id \in DOMAIN dir
    THEN [ok |-> FALSE, err |-> "Io", val |-> NoBundle, io |-> f]
    ELSE [ok |-> load(dir, id).ok, err |-> load(dir, id).err, val |-> load(dir, id).val,
          io |-> ""]

\* find_by_partial_id when the call f fails: Err(_) => None.
\* [found, ids, io]: the identifiers the scan may meet first
find_by_partial_id_io(dir, partial, f) ==
    IF list_io(dir, f).ok
    THEN [found |-> find_by_partial_id(dir, partial) # {},
          ids |-> find_by_partial_id(dir, partial), io |-> ""]
    ELSE [found |-> FALSE, ids |-> {}, io |-> list_io(dir, f).io]

\* load_by_partial_id when the call f fails: the results it may return
load_by_partial_id_io(dir, partial, f) ==
    LET found == find_by_partial_id_io(dir, partial, f) IN
    IF found.found
    THEN {load_io(dir, id, f) : id \in found.ids}
    ELSE {[ok |-> FALSE, err |-> "NotFound", val |-> NoBundle, io |-> found.io]}

\* a bundle that counts as expired from its deadline on
is_expired_AtDeadline(b, t) == t >= b.creation_timestamp + b.lifetime

\* Bundle::is_expired at time t
is_expired(b, t) == t > b.creation_timestamp + b.lifetime

\* bytes of a .cbor file that is no bundle
CorruptFile == <<255>>

\* the store directory holding the bundles of S, as insert leaves it
StoreOf(S) ==
    [id \in {filename_for(b) : b \in S} |->
        Encode(CHOOSE b \in S : filename_for(b) = id)]

(***************************************************************************)
(* The bundle descriptor and epidemic routing: pure parts.  A peer is a    *)
(* record [eid, address, reachable]; a handle into a candidate list is the *)
(* index of the peer in it.                                                *)
(***************************************************************************)
\* a mark_sent that forgets the endpoints marked before
mark_sent_Replace(sent, eid) == {eid}

\* BundleDescriptor::mark_sent: already_sent.insert(eid)
mark_sent(sent, eid) == sent \cup {eid}

\* BundleDescriptor::has_been_sent_to
has_been_sent_to(sent, eid) == eid \in sent

RECURSIVE SelectLoop(_, _, _, _, _)
\* the loop of select_peers_for_forwarding from candidate i on
SelectLoop(sent, peers, i, seen_eids, result) ==
    IF i > Len(peers) THEN result
    ELSE IF ~has_been_sent_to(sent, peers[i].eid) /\ peers[i].eid \notin seen_eids
         THEN SelectLoop(sent, peers, i + 1, seen_eids \cup {peers[i].eid}, Append(result, i))
         ELSE SelectLoop(sent, peers, i + 1, seen_eids, result)

RECURSIVE SelectLoopNoDedup(_, _, _, _)
SelectLoopNoDedup(sent, peers, i, result) ==
    IF i > Len(peers) THEN result
    ELSE IF ~has_been_sent_to(sent, peers[i].eid)
         THEN SelectLoopNoDedup(sent, peers, i + 1, Append(result, i))
         ELSE SelectLoopNoDedup(sent, peers, i + 1, result)

\* a selection that returns every candidate not sent to, repeats included
select_peers_for_forwarding_NoDedup(sent, peers) == SelectLoopNoDedup(sent, peers, 1, <<>>)

\* EpidemicRouting::select_peers_for_forwarding: the handles it returns
select_peers_for_forwarding(sent, peers) == SelectLoop(sent, peers, 1, {}, <<>>)

RECURSIVE SelectLoopAsync(_, _, _, _, _)
\* the loop of select_peers_for_forwarding_async from candidate i on:
\* !has_been_sent_to(&eid) && seen_eids.insert(eid) && peer.is_reachable()
SelectLoopAsync(sent, peers, i, seen_eids, result) ==
    IF i > Len(peers) THEN result
    ELSE IF has_been_sent_to(sent, peers[i].eid) \/ peers[i].eid \in seen_eids
         THEN SelectLoopAsync(sent, peers, i + 1, seen_eids, result)
         ELSE IF peers[i].reachable
              THEN SelectLoopAsync(sent, peers, i + 1, seen_eids \cup {peers[i].eid},
                                   Append(result, i))
              ELSE SelectLoopAsync(sent, peers, i + 1, seen_eids \cup {peers[i].eid}, result)

RECURSIVE SelectLoopProbeFirst(_, _, _, _, _)
SelectLoopProbeFirst(sent, peers, i, seen_eids, result) ==
    IF i > Len(peers) THEN result
    ELSE IF ~has_been_sent_to(sent, peers[i].eid) /\ peers[i].reachable
            /\ peers[i].eid \notin seen_eids
         THEN SelectLoopProbeFirst(sent, peers, i + 1, seen_eids \cup {peers[i].eid},
                                   Append(result, i))
         ELSE SelectLoopProbeFirst(sent, peers, i + 1, seen_eids, result)

\* a selection that probes a peer before it records the peer's EID as seen
select_peers_for_forwarding_async_ProbeFirst(sent, peers) ==
    SelectLoopProbeFirst(sent, peers, 1, {}, <<>>)

\* EpidemicRouting::select_peers_for_forwarding_async: the handles it returns
select_peers_for_forwarding_async(sent, peers) == SelectLoopAsync(sent, peers, 1, {}, <<>>)

\* a selection that consults the table: the active routes not sent to
select_routes_for_forwarding_FromTable(sent, table) ==
    LET Eligible(r) == r.is_active /\ r.next_hop \notin sent IN
    SelectSeq(table, Eligible)

\* EpidemicRouting::select_routes_for_forwarding: Vec::new()
select_routes_for_forwarding(sent, table) == <<>>

\* ClaManager::list_reachable_peers: the peers whose probe reports true
IsReachable(peer) == peer.reachable
list_reachable_peers(peers) == SelectSeq(peers, IsReachable)

\* the owned peers a node operation returns for the handles hs into peers:
\* TcpPeer::new(eid, address)
OwnedPeers(peers, hs) ==
    [k \in 1..Len(hs) |-> [eid |-> peers[hs[k]].eid, address |-> peers[hs[k]].address]]

(***************************************************************************)
(* The routing algorithm as the node holds it: the trait methods take the  *)
(* descriptor, and the configuration chooses the implementation.           *)
(***************************************************************************)
\* a selection that sends a bundle only towards its destination
EpidemicSelectPeers_ToDestination(d, peers) ==
    LET ForDestination(h) == peers[h].eid = d.bundle.destination IN
    SelectSeq(select_peers_for_forwarding(d.already_sent, peers), ForDestination)

\* EpidemicRouting::select_peers_for_forwarding(&descriptor, all_peers): the
\* descriptor is read through has_been_sent_to only
EpidemicSelectPeers(d, peers) == select_peers_for_forwarding(d.already_sent, peers)

EpidemicSelectPeersAsync(d, peers) ==
    select_peers_for_forwarding_async(d.already_sent, peers)

EpidemicSelectRoutes(d, table) == select_routes_for_forwarding(d.already_sent, table)

UpperLetters ==
    <<"A", "B", "C", "D", "E", "F", "G", "H", "I", "J", "K", "L", "M",
      "N", "O", "P", "Q", "R", "S", "T", "U", "V", "W", "X", "Y", "Z">>

LowerLetters ==
    <<"a", "b", "c", "d", "e", "f", "g", "h", "i", "j", "k", "l", "m",
      "n", "o", "p", "q", "r", "s", "t", "u", "v", "w", "x", "y", "z">>

\* str::to_lowercase on one character: an upper-case letter becomes its
\* lower-case letter, every other character stays
LowerChar(c) ==
    IF \E i \in 1..Len(UpperLetters) : UpperLetters[i] = c
    THEN LowerLetters[CHOOSE i \in 1..Len(UpperLetters) : UpperLetters[i] = c]
    ELSE c

to_lowercase(name) == [i \in 1..Len(name) |-> LowerChar(name[i])]

NameEpidemic == <<"e", "p", "i", "d", "e", "m", "i", "c">>
NameProphet == <<"p", "r", "o", "p", "h", "e", "t">>

\* Config::get_routing_algorithm_type
get_routing_algorithm_type(name) ==
    CASE to_lowercase(name) = NameEpidemic -> "Epidemic"
      [] to_lowercase(name) = NameProphet -> "Prophet"
      [] OTHER -> "Epidemic"

\* a factory that has no algorithm to give for Prophet
create_algorithm_ProphetMissing(type) ==
    IF type = "Epidemic" THEN "EpidemicRouting" ELSE "Unimplemented"

\* RoutingConfig::create_algorithm: the implementation behind the Box
create_algorithm(type) ==
    CASE type = "Epidemic" -> "EpidemicRouting"
      [] type = "Prophet" -> "EpidemicRouting"

\* calls through Box<dyn RoutingAlgorithm>; EpidemicRouting is the only
\* implementation, anything else has no selection to make
AlgSelectPeers(alg, d, peers) ==
    IF alg = "EpidemicRouting" THEN EpidemicSelectPeers(d, peers) ELSE <<>>

AlgSelectPeersAsync(alg, d, peers) ==
    IF alg = "EpidemicRouting" THEN EpidemicSelectPeersAsync(d, peers) ELSE <<>>

AlgSelectRoutes(alg, d, table) ==
    IF alg = "EpidemicRouting" THEN EpidemicSelectRoutes(d, table) ELSE <<>>

(***************************************************************************)
(* The routing table: a map from destination to the entries added for it,  *)
(* held here as the sequence of entries in the order add_route got them.   *)
(***************************************************************************)
\* the keys of the map
Destinations(table) == {table[i].destination : i \in 1..Len(table)}

\* the Vec the map holds for a destination, in insertion order
EntriesFor(table, dest) ==
    LET ForDest(r) == r.destination = dest IN SelectSeq(table, ForDest)

IsActive(r) == r.is_active

\* a query that returns inactive entries too
get_routes_for_destination_NoFilter(table, dest) == EntriesFor(table, dest)

\* RoutingTable::get_routes_for_destination
get_routes_for_destination(table, dest) == SelectSeq(EntriesFor(table, dest), IsActive)

\* the orders in which HashMap::values() may visit the keys
KeyOrders(table) ==
    LET K == Destinations(table) IN
    {f \in [1..Cardinality(K) -> K] : \A i, j \in DOMAIN f : f[i] = f[j] => i = j}

RECURSIVE Flatten(_, _, _)
\* values().flatten() from the i-th key of the order on
Flatten(table, order, i) ==
    IF i > Len(order) THEN <<>>
    ELSE EntriesFor(table, order[i]) \o Flatten(table, order, i + 1)

\* a listing that returns inactive entries too
get_all_routes_NoFilter(table) == {Flatten(table, o, 1) : o \in KeyOrders(table)}

\* RoutingTable::get_all_routes: one result for each order of the keys
get_all_routes(table) ==
    {SelectSeq(Flatten(table, o, 1), IsActive) : o \in KeyOrders(table)}

RECURSIVE MinByCost(_, _, _)
\* Iterator::min_by_key(|route| route.cost): the first of the cheapest
MinByCost(rs, i, best) ==
    IF i > Len(rs) THEN best
    ELSE MinByCost(rs, i + 1, IF rs[i].cost < best.cost THEN rs[i] ELSE best)

\* a search that takes the cheapest entry whether it is active or not
find_best_route_AnyStatus(table, dest) ==
    LET rs == EntriesFor(table, dest) IN
    IF rs = <<>> THEN <<>> ELSE <<MinByCost(rs, 2, rs[1])>>

\* RoutingTable::find_best_route: an Option, here a sequence of 0 or 1 entry
find_best_route(table, dest) ==
    LET rs == get_routes_for_destination(table, dest) IN
    IF rs = <<>> THEN <<>> ELSE <<MinByCost(rs, 2, rs[1])>>

(***************************************************************************)
(* State.                                                                  *)
(***************************************************************************)
VARIABLES
    \* ---- one connection of the receiver ----
    cIn,        \* bytes the peer has written and the handler has not read
    cState,     \* the peer's end: "open", "closed" (EOF), "reset"
    nSent,      \* frames the peer has begun to write
    cPend,      \* bytes of the frame being written that the peer has yet to write
    hpc,        \* handler position
    hLen,       \* declared length of the frame being read
    hEnd,       \* why the handler ended ("" while it runs)
    rx,         \* payloads of the complete frames the handler has read
    callbacks,  \* bundles handed to the receive callback, in order
    acks,       \* acknowledgments written: [frame, bytes]
    \* ---- the file system and the clock ----
    store,      \* the store directory: identifier -> bytes of the .cbor file
    dispatched, \* the dispatched directory: identifier -> bytes
    now,        \* the wall clock, in seconds
    \* ---- the callers of the store ----
    res,        \* the last call of a store operation and its result
    redisp,     \* identifiers dispatched with no insert since
    kpc,        \* cleanup_expired: position
    kIds,       \* cleanup_expired: identifiers listed and not yet visited
    kCur,       \* cleanup_expired: identifier whose file is to be removed
    kLog,       \* cleanup_expired: what each visit did:
                \*   [id, load, expired, bundle, io]
    kErr,       \* cleanup_expired: the error it returned ("" if none)
    wr,         \* the inserts in progress, each between the truncating open
                \*   of fs::write and its write: [id, bundle, pre, at, alone]
    \* ---- one activation of the dialer ----
    dpc,        \* dialer position
    dIds,       \* identifiers listed and not yet visited
    dBundle,    \* the bundle loaded for the identifier being sent
    dStart,     \* the store directory when the dialer listed it
    wire,       \* frames written to the stream: [id, bytes, complete]
    outcomes,   \* per send_bundle call: [id, result, ack]
    dMoved,     \* identifiers this activation dispatched
    dAbort,     \* why the activation returned an error ("" if it did not)
    interfered, \* another actor has changed the store since the listing
    \* ---- faults of the file system ----
    fault,      \* the file-system call that fails at present ("none" if none)
    \* ---- one bundle descriptor, the candidate peers, the routing table ----
    descriptor, \* the BundleDescriptor: [bundle, already_sent, forwarding_attempts]
    all_peers,  \* the candidate list: a sequence of peers [eid, address, reachable]
    routes,     \* the routing table's entries, in the order they were added
    algorithm,  \* the routing algorithm the node holds
    selected,   \* the last selection call and what it returned
    \* the CLA manager
    active_clas, \* ClaState.active_clas: the addresses registered
    callers,     \* per caller of the manager: [pc, cla] of its register call and
                 \* notified, the bundles it has passed to notify_receive
    tasks,       \* the activation tasks spawned: [cla, state], in spawn order
    nCalls,      \* register calls made
    listed,      \* the last list_active: [done, addrs], addrs the set it returned
    units,       \* the callback tasks spawned by notify_receive: [bundle, state]
    \* ---- the listener's activation and its connections ----
    lsn,        \* TcpClaListener::activate: [pc, binds, err]
    conns,      \* the connections peers opened, in order: [acc, pc, peer, in,
                \*   out, len, buf, sent, got, acks]; in: bytes arrived and not
                \*   read, out: bytes of the frame begun that are yet to be
                \*   written, sent: the bundles of the complete frames written
    connects    \* TcpStream::connect attempts of the dialer's activation

serverVars == <<cIn, cState, nSent, cPend, hpc, hLen, hEnd, rx, callbacks, acks>>
fsVars == <<store, dispatched, now>>
storeVars == <<res, redisp, kpc, kIds, kCur, kLog, kErr, wr>>
dialVars == <<dpc, dIds, dBundle, dStart, wire, outcomes, dMoved, dAbort, interfered>>

ioVars == <<fault>>
routeVars == <<descriptor, all_peers, routes, algorithm, selected>>

claVars == <<active_clas, callers, tasks, nCalls, listed, units>>

netVars == <<lsn, conns, connects>>

vars == <<serverVars, fsVars, storeVars, dialVars, ioVars, routeVars, claVars, netVars>>

(***************************************************************************)
(* The parts of the state a specification does not use stay as they start. *)
(***************************************************************************)
NoCall == [op |-> "none"]

\* no insert is in progress
NoWrite == <<>>

IdleFs ==
    /\ store = NoFiles
    /\ dispatched = NoFiles
    /\ now = 1

IdleStoreCallers ==
    /\ res = NoCall
    /\ redisp = {}
    /\ kpc = "idle"
    /\ kIds = <<>>
    /\ kCur = <<>>
    /\ kLog = <<>>
    /\ kErr = ""
    /\ wr = NoWrite

IdleDialer ==
    /\ dpc = "idle"
    /\ dIds = <<>>
    /\ dBundle = NoBundle
    /\ dStart = NoFiles
    /\ wire = <<>>
    /\ outcomes = <<>>
    /\ dMoved = {}
    /\ dAbort = ""
    /\ interfered = FALSE

IdleIo == fault = "none"

\* BundleDescriptor::new(bundle) at time t
NewDescriptor(b, t) ==
    [bundle |-> b, already_sent |-> {}, forwarding_attempts |-> 0, created_at |-> t]

IdleRouting ==
    /\ descriptor = NewDescriptor(StoreB1, 1)
    /\ all_peers = <<>>
    /\ routes = <<>>
    /\ algorithm = "EpidemicRouting"
    /\ selected = NoCall

\* the tasks that call the manager, each through its own clone of it
Callers == {1, 2}

NotListed == [done |-> FALSE, addrs |-> {}]

IdleCla ==
    /\ active_clas = {}
    /\ callers = [c \in Callers |-> [pc |-> "idle", cla |-> 0, notified |-> <<>>]]
    /\ tasks = <<>>
    /\ nCalls = 0
    /\ listed = NotListed
    /\ units = <<>>

IdleNet ==
    /\ lsn = [pc |-> "idle", binds |-> 0, err |-> ""]
    /\ conns = <<>>
    /\ connects = 0

(***************************************************************************)
(* The receiver: handle_connection.                                        *)
(***************************************************************************)
ServerInit ==
    /\ cIn = <<>>
    /\ cState = "open"
    /\ nSent = 0
    /\ cPend = <<>>
    /\ hpc = "read_len"
    /\ hLen = 0
    /\ hEnd = ""
    /\ rx = <<>>
    /\ callbacks = <<>>
    /\ acks = <<>>

\* the peer begins a frame (write_all of the prefix, write_all of the
\* payload): the first k bytes of it have arrived, the rest is yet to be
\* written
ClientSendFrame ==
    /\ cState = "open"
    /\ cPend = <<>>
    /\ nSent < MaxFrames
    /\ \E p \in WirePayloads :
       \E k \in 1..Len(Frame(p)) :
          /\ cIn' = cIn \o SubSeq(Frame(p), 1, k)
          /\ cPend' = SubSeq(Frame(p), k + 1, Len(Frame(p)))
    /\ nSent' = nSent + 1
    /\ UNCHANGED <<cState, hpc, hLen, hEnd, rx, callbacks, acks>>
    /\ UNCHANGED <<fsVars, storeVars, dialVars, ioVars, routeVars, claVars, netVars>>

\* the rest of the frame the peer has begun arrives
ClientSendRest ==
    /\ cState = "open"
    /\ cPend # <<>>
    /\ cIn' = cIn \o cPend
    /\ cPend' = <<>>
    /\ UNCHANGED <<cState, nSent, hpc, hLen, hEnd, rx, callbacks, acks>>
    /\ UNCHANGED <<fsVars, storeVars, dialVars, ioVars, routeVars, claVars, netVars>>

\* the peer writes part of a frame and closes
ClientSendPartial ==
    /\ cState = "open"
    /\ cPend = <<>>
    /\ \E p \in WirePayloads \cup {<<1, 2>>} :
         \E lenBytes \in {ToBeBytes(U32(Len(p))), <<127, 255, 255, 255>>} :
           LET f == lenBytes \o p IN
           \E k \in 1..(Len(f) - 1) : cIn' = cIn \o SubSeq(f, 1, k)
    /\ cState' = "closed"
    /\ UNCHANGED <<nSent, cPend, hpc, hLen, hEnd, rx, callbacks, acks>>
    /\ UNCHANGED <<fsVars, storeVars, dialVars, ioVars, routeVars, claVars, netVars>>

\* the peer closes its end: the handler's reads see EOF after the bytes
\* written; what the peer had yet to write never arrives
ClientClose ==
    /\ cState = "open"
    /\ cState' = "closed"
    /\ cPend' = <<>>
    /\ UNCHANGED <<cIn, nSent, hpc, hLen, hEnd, rx, callbacks, acks>>
    /\ UNCHANGED <<fsVars, storeVars, dialVars, ioVars, routeVars, claVars, netVars>>

\* the connection is reset: the bytes received before the reset stay
\* readable, a read that needs more than them fails with an I/O error, and
\* what the peer had yet to write never arrives
ClientReset ==
    /\ cState = "open"
    /\ cState' = "reset"
    /\ cPend' = <<>>
    /\ UNCHANGED <<cIn, nSent, hpc, hLen, hEnd, rx, callbacks, acks>>
    /\ UNCHANGED <<fsVars, storeVars, dialVars, ioVars, routeVars, claVars, netVars>>

\* stream.read_exact(&mut len_buf) and the match on its result
ReadLen ==
    /\ hpc = "read_len"
    /\ \/ /\ Len(cIn) >= 4
          /\ hLen' = FromBeBytes(SubSeq(cIn, 1, 4))
          /\ cIn' = SubSeq(cIn, 5, Len(cIn))
          /\ hpc' = "read_payload"
          /\ UNCHANGED hEnd
       \/ /\ Len(cIn) < 4
          /\ cState = "closed"
          \* UnexpectedEof, with 0 to 3 bytes of the prefix read: break
          /\ hEnd' = IF cIn = <<>> THEN "eof_at_boundary" ELSE "eof_in_prefix"
          /\ cIn' = <<>>
          /\ hpc' = "done_ok"
          /\ UNCHANGED hLen
       \/ /\ Len(cIn) < 4
          /\ cState = "reset"
          \* any other read error: break
          /\ hEnd' = "read_error_in_prefix"
          /\ cIn' = <<>>
          /\ hpc' = "done_ok"
          /\ UNCHANGED hLen
    /\ UNCHANGED <<cState, nSent, cPend, rx, callbacks, acks>>
    /\ UNCHANGED <<fsVars, storeVars, dialVars, ioVars, routeVars, claVars, netVars>>

\* a handler that skips an undecodable frame without answering it
HandlePayload_SkipBad(buf) ==
    LET d == Decode(buf) IN
    IF d.ok
    THEN /\ callbacks' = Append(callbacks, d.val)
         /\ hpc' = "callback"
         /\ UNCHANGED <<hEnd, acks>>
    ELSE /\ hpc' = "read_len"
         /\ UNCHANGED <<hEnd, callbacks, acks>>

\* a handler that acknowledges without invoking the callback
HandlePayload_NoCallback(buf) ==
    LET d == Decode(buf) IN
    IF d.ok
    THEN /\ hpc' = "write_ok"
         /\ UNCHANGED <<hEnd, callbacks, acks>>
    ELSE /\ hEnd' = "decode_error"
         /\ hpc' = "done_err"
         /\ UNCHANGED <<callbacks, acks>>

\* what the handler does with a complete payload: a decoded bundle is passed
\* to (callback)(bundle), called in the handler's own task
HandlePayload(buf) ==
    LET d == Decode(buf) IN
    IF d.ok
    THEN /\ callbacks' = Append(callbacks, d.val)
         /\ hpc' = "callback"
         /\ UNCHANGED <<hEnd, acks>>
    ELSE \* serde_cbor::from_slice(&buf)? returns the error
         /\ hEnd' = "decode_error"
         /\ hpc' = "done_err"
         /\ UNCHANGED <<callbacks, acks>>

\* stream.read_exact(&mut buf)?, the decode and the call of the callback
ReadPayload ==
    /\ hpc = "read_payload"
    /\ \/ /\ Len(cIn) >= hLen
          /\ rx' = Append(rx, SubSeq(cIn, 1, hLen))
          /\ cIn' = SubSeq(cIn, hLen + 1, Len(cIn))
          /\ HandlePayload(SubSeq(cIn, 1, hLen))
       \/ /\ Len(cIn) < hLen
          /\ cState # "open"
          /\ hEnd' = IF cState = "closed" THEN "eof_in_payload"
                     ELSE "read_error_in_payload"
          /\ hpc' = "done_err"
          /\ cIn' = <<>>
          /\ UNCHANGED <<rx, callbacks, acks>>
    /\ UNCHANGED <<cState, nSent, cPend, hLen>>
    /\ UNCHANGED <<fsVars, storeVars, dialVars, ioVars, routeVars, claVars, netVars>>

\* (callback)(bundle) returns, if it ever does, and the handler goes on
CallbackReturn ==
    /\ hpc = "callback"
    /\ hpc' = "write_ok"
    /\ UNCHANGED <<cIn, cState, nSent, cPend, hLen, hEnd, rx, callbacks, acks>>
    /\ UNCHANGED <<fsVars, storeVars, dialVars, ioVars, routeVars, claVars, netVars>>

\* stream.write_all(b"OK").await?
WriteOk ==
    /\ hpc = "write_ok"
    /\ \/ /\ acks' = Append(acks, [frame |-> Len(rx), bytes |-> AckOK])
          /\ hpc' = "read_len"
          /\ UNCHANGED hEnd
       \/ /\ cState # "open"
          \* the peer is gone: the write may fail
          /\ hEnd' = "write_error"
          /\ hpc' = "done_err"
          /\ UNCHANGED acks
    /\ UNCHANGED <<cIn, cState, nSent, cPend, hLen, rx, callbacks>>
    /\ UNCHANGED <<fsVars, storeVars, dialVars, ioVars, routeVars, claVars, netVars>>

ServerNext ==
    \/ ClientSendFrame
    \/ ClientSendRest
    \/ ClientSendPartial
    \/ ClientClose
    \/ ClientReset
    \/ ReadLen
    \/ ReadPayload
    \/ CallbackReturn
    \/ WriteOk

InitServer == ServerInit /\ IdleNet /\ IdleCla /\ IdleFs /\ IdleStoreCallers /\ IdleDialer /\ IdleIo /\ IdleRouting

SpecServer == InitServer /\ [][ServerNext]_vars

(***************************************************************************)
(* Properties of the receiver.                                             *)
(***************************************************************************)
Decodes(p) == Decode(p).ok

HasAck(k, bytes) == \E i \in 1..Len(acks) : acks[i].frame = k /\ acks[i].bytes = bytes

\* the handler has finished with frame k
FrameDone(k) == k < Len(rx) \/ hpc \in {"read_len", "done_ok", "done_err"}

\* C2: a complete frame whose payload does not decode is answered with ERROR,
\* the callback is not invoked for it, and the connection stays open (the
\* handler does not end on the decode failure).
C2_ErrorAckKeepsOpen ==
    /\ hEnd # "decode_error"
    /\ \A k \in 1..Len(rx) :
         (~Decodes(rx[k]) /\ FrameDone(k)) => HasAck(k, AckERROR)
    /\ Len(callbacks) = Len(SelectSeq(rx, Decodes))

\* C3: the handler ends without error exactly when EOF arrives at a frame
\* boundary; EOF inside a frame ends it with an error; the callback is never
\* invoked for an incomplete frame.
C3_OkOnlyAtBoundary ==
    /\ (hpc = "done_ok" /\ cState = "closed") => hEnd = "eof_at_boundary"
    /\ hEnd = "eof_at_boundary" => hpc = "done_ok"
    /\ hEnd \in {"eof_in_prefix", "eof_in_payload"} => hpc = "done_err"
    /\ Len(callbacks) <= Len(rx)

\* what C4 says of the frames received so far: the callbacks are those of the
\* decodable frames, one each, with the bundle that was encoded; every
\* acknowledgment is the two bytes OK, of a decodable frame that has no
\* other; and every decodable frame has its OK unless the handler is still at
\* it or, where lastMayFail allows it, the handler ended in the write of that
\* OK, which fails only on a connection the peer has closed or reset.
C4_Accounted(lastMayFail) ==
    LET good == SelectSeq(rx, Decodes) IN
    /\ Len(callbacks) = Len(good)
    /\ \A k \in 1..Len(callbacks) : Encode(callbacks[k]) = good[k]
    /\ \A i \in 1..Len(acks) :
         /\ acks[i].bytes = AckOK
         /\ Len(acks[i].bytes) = 2
         /\ acks[i].frame \in 1..Len(rx)
         /\ Decodes(rx[acks[i].frame])
         /\ \A j \in 1..Len(acks) : acks[j].frame = acks[i].frame => j = i
    /\ \A k \in 1..Len(rx) :
         Decodes(rx[k]) =>
            \/ HasAck(k, AckOK)
            \/ k = Len(rx) /\ hpc \in {"callback", "write_ok"}
            \/ /\ lastMayFail
               /\ k = Len(rx)
               /\ hEnd = "write_error"
               /\ hpc = "done_err"
               /\ cState # "open"
    /\ hpc \in {"callback", "write_ok"} => Decodes(rx[Len(rx)])

\* C4 as stated: every complete frame whose payload decodes gets the callback
\* exactly once, with the bundle that was encoded, and exactly one
\* acknowledgment, the two bytes OK; after it the handler awaits the next
\* frame.
C4_EveryDecodedFrameGetsOk == C4_Accounted(FALSE)

\* C4, amended: every complete frame whose payload decodes gets the callback
\* exactly once, with the bundle that was encoded, and then at most one
\* acknowledgment, the two bytes OK: when that write succeeds the handler
\* awaits the next frame, and when it fails, which it does only after the
\* peer has closed or reset the connection, the handler ends with the error,
\* the callback having been invoked.
C4_CallbackOnceThenOk == C4_Accounted(TRUE)

\* the first frame has had its callback and its OK; the second has had its
\* callback, and the write of its OK failed on the connection the peer left
C4_Witness ==
    /\ hpc = "done_err"
    /\ hEnd = "write_error"
    /\ Len(callbacks) = 2
    /\ Len(acks) = 1
    /\ callbacks[1] # callbacks[2]

\* C5: frames of one connection are processed in arrival order: when the
\* length prefix of a frame has been read, every earlier frame has had its
\* callback and its acknowledgment, so the k-th acknowledgment answers the
\* k-th frame.
C5_ArrivalOrder ==
    /\ \A k \in 1..Len(acks) : acks[k].frame = k
    /\ \A k \in 1..Len(callbacks) : Decode(rx[k]) = [ok |-> TRUE, val |-> callbacks[k]]
    /\ hpc = "read_payload" => Len(callbacks) = Len(rx) /\ Len(acks) = Len(rx)

C5_Witness ==
    /\ hpc = "read_payload"
    /\ Len(rx) = 1
    /\ Len(acks) = 1
    /\ Len(callbacks) = 1

\* C30: the callback is dispatched as an independent unit of work, so the
\* framing loop does not wait for it: while the callback invoked for a
\* decoded bundle has not returned, the handler is able to write the OK of
\* that frame, so a callback that never returns does not block the
\* connection.
C30_CallbackDoesNotBlockConnection ==
    hpc = "callback" => ENABLED WriteOk

(***************************************************************************)
(* The listener: TcpClaListener::activate binds, then accepts connections  *)
(* in a loop and spawns handle_connection for each of them.                *)
(***************************************************************************)
\* a connection a peer has opened and the listener has not accepted yet
NewConn ==
    [acc |-> FALSE, pc |-> "none", peer |-> "open", in |-> <<>>, out |-> <<>>,
     len |-> 0, buf |-> <<>>, sent |-> <<>>, got |-> <<>>, acks |-> 0]

Pending == {k \in 1..Len(conns) : ~conns[k].acc}

\* the connection accept() returns: the oldest of the backlog
NextPending == CHOOSE k \in Pending : \A j \in Pending : k <= j

\* an accept loop that handles the accepted connection itself before it
\* accepts the next one
Accept_Inline ==
    /\ lsn.pc = "accept"
    /\ Pending # {}
    /\ \A k \in 1..Len(conns) : conns[k].acc => conns[k].pc = "done"
    /\ conns' = [conns EXCEPT ![NextPending].acc = TRUE, ![NextPending].pc = "read_len"]
    /\ UNCHANGED <<lsn, connects>>
    /\ UNCHANGED <<serverVars, fsVars, storeVars, dialVars, ioVars, routeVars, claVars>>

\* let listener = TcpListener::bind(&self.bind_addr).await?
ListenerBind ==
    /\ lsn.pc = "idle"
    /\ \/ lsn' = [lsn EXCEPT !.pc = "accept", !.binds = @ + 1]
       \/ lsn' = [lsn EXCEPT !.pc = "done_err", !.binds = @ + 1, !.err = "bind"]
    /\ UNCHANGED <<conns, connects>>
    /\ UNCHANGED <<serverVars, fsVars, storeVars, dialVars, ioVars, routeVars, claVars>>

\* a peer connects to the bound socket: the connection waits in the backlog
PeerConnect ==
    /\ lsn.pc = "accept"
    /\ Len(conns) < MaxConns
    /\ conns' = Append(conns, NewConn)
    /\ UNCHANGED <<lsn, connects>>
    /\ UNCHANGED <<serverVars, fsVars, storeVars, dialVars, ioVars, routeVars, claVars>>

\* let (stream, _) = listener.accept().await?;
\* tokio::spawn(handle_connection(stream, callback))
Accept ==
    /\ lsn.pc = "accept"
    /\ Pending # {}
    /\ conns' = [conns EXCEPT ![NextPending].acc = TRUE, ![NextPending].pc = "read_len"]
    /\ UNCHANGED <<lsn, connects>>
    /\ UNCHANGED <<serverVars, fsVars, storeVars, dialVars, ioVars, routeVars, claVars>>

\* listener.accept().await? fails: activate returns the error; the handlers
\* already spawned go on
AcceptFail ==
    /\ lsn.pc = "accept"
    /\ lsn' = [lsn EXCEPT !.pc = "done_err", !.err = "accept"]
    /\ UNCHANGED <<conns, connects>>
    /\ UNCHANGED <<serverVars, fsVars, storeVars, dialVars, ioVars, routeVars, claVars>>

\* the bundle the peer of connection k sends: neighbouring connections
\* carry different bundles
ConnBundle(k) == IF k % 2 = 1 THEN WireB1 ELSE WireB2

\* the frame the peer of connection k writes
ConnFrame(k) == Frame(Encode(ConnBundle(k)))

\* the peer of connection k begins a frame (send_bundle: write_all of the
\* prefix, write_all of the encoding): the first n bytes of it have arrived,
\* the rest is yet to be written
PeerSendFrame(k) ==
    /\ conns[k].peer = "open"
    /\ conns[k].out = <<>>
    /\ Len(conns[k].sent) < MaxConnFrames
    /\ \E n \in 1..Len(ConnFrame(k)) :
          conns' = [conns EXCEPT
                      ![k].in = @ \o SubSeq(ConnFrame(k), 1, n),
                      ![k].out = SubSeq(ConnFrame(k), n + 1, Len(ConnFrame(k))),
                      ![k].sent = IF n = Len(ConnFrame(k))
                                  THEN Append(@, ConnBundle(k)) ELSE @]
    /\ UNCHANGED <<lsn, connects>>
    /\ UNCHANGED <<serverVars, fsVars, storeVars, dialVars, ioVars, routeVars, claVars>>

\* the rest of the frame the peer of connection k has begun arrives
PeerSendRest(k) ==
    /\ conns[k].peer = "open"
    /\ conns[k].out # <<>>
    /\ conns' = [conns EXCEPT ![k].in = @ \o conns[k].out,
                              ![k].out = <<>>,
                              ![k].sent = Append(@, ConnBundle(k))]
    /\ UNCHANGED <<lsn, connects>>
    /\ UNCHANGED <<serverVars, fsVars, storeVars, dialVars, ioVars, routeVars, claVars>>

\* the peer of connection k, having written part of a frame, sends nothing
\* more and keeps the connection open
PeerStall(k) ==
    /\ conns[k].peer = "open"
    /\ conns[k].out # <<>>
    /\ conns' = [conns EXCEPT ![k].peer = "stalled"]
    /\ UNCHANGED <<lsn, connects>>
    /\ UNCHANGED <<serverVars, fsVars, storeVars, dialVars, ioVars, routeVars, claVars>>

\* the peer of connection k closes its end; what it had yet to write never
\* arrives
PeerClose(k) ==
    /\ conns[k].peer = "open"
    /\ conns' = [conns EXCEPT ![k].peer = "closed", ![k].out = <<>>]
    /\ UNCHANGED <<lsn, connects>>
    /\ UNCHANGED <<serverVars, fsVars, storeVars, dialVars, ioVars, routeVars, claVars>>

\* handle_connection of connection k: stream.read_exact(&mut len_buf) and the
\* match on its result; the read returns only when 4 bytes or EOF arrived
ConnReadLen(k) ==
    /\ conns[k].pc = "read_len"
    /\ \/ /\ Len(conns[k].in) >= 4
          /\ conns' = [conns EXCEPT ![k].len = FromBeBytes(SubSeq(conns[k].in, 1, 4)),
                                    ![k].in = SubSeq(@, 5, Len(@)),
                                    ![k].pc = "read_payload"]
       \/ /\ Len(conns[k].in) < 4
          /\ conns[k].peer = "closed"
          /\ conns' = [conns EXCEPT ![k].in = <<>>, ![k].pc = "done"]
    /\ UNCHANGED <<lsn, connects>>
    /\ UNCHANGED <<serverVars, fsVars, storeVars, dialVars, ioVars, routeVars, claVars>>

\* handle_connection of connection k: stream.read_exact(&mut buf).await?; the
\* read returns only when len bytes or EOF arrived
ConnReadPayload(k) ==
    /\ conns[k].pc = "read_payload"
    /\ \/ /\ Len(conns[k].in) >= conns[k].len
          /\ conns' = [conns EXCEPT ![k].buf = SubSeq(conns[k].in, 1, conns[k].len),
                                    ![k].in = SubSeq(@, conns[k].len + 1, Len(@)),
                                    ![k].pc = "decode"]
       \/ /\ Len(conns[k].in) < conns[k].len
          /\ conns[k].peer = "closed"
          /\ conns' = [conns EXCEPT ![k].in = <<>>, ![k].pc = "done"]
    /\ UNCHANGED <<lsn, connects>>
    /\ UNCHANGED <<serverVars, fsVars, storeVars, dialVars, ioVars, routeVars, claVars>>

\* the connection c after its handler has decoded the payload it read: a
\* decoded bundle is passed to (callback)(bundle), an undecodable payload
\* ends the handler (serde_cbor::from_slice(&buf)?)
AfterDecode(c) ==
    LET d == Decode(c.buf) IN
    [c EXCEPT !.got = IF d.ok THEN Append(c.got, d.val) ELSE c.got,
              !.pc = IF d.ok THEN "callback" ELSE "done"]

\* handle_connection of connection k: serde_cbor::from_slice(&buf)? and the
\* call of the callback
ConnDecode(k) ==
    /\ conns[k].pc = "decode"
    /\ conns' = [conns EXCEPT ![k] = AfterDecode(conns[k])]
    /\ UNCHANGED <<lsn, connects>>
    /\ UNCHANGED <<serverVars, fsVars, storeVars, dialVars, ioVars, routeVars, claVars>>

\* (callback)(bundle) of connection k returns
ConnCallbackReturn(k) ==
    /\ conns[k].pc = "callback"
    /\ conns' = [conns EXCEPT ![k].pc = "write_ok"]
    /\ UNCHANGED <<lsn, connects>>
    /\ UNCHANGED <<serverVars, fsVars, storeVars, dialVars, ioVars, routeVars, claVars>>

\* handle_connection of connection k: stream.write_all(b"OK").await?
ConnWriteOk(k) ==
    /\ conns[k].pc = "write_ok"
    /\ \/ conns' = [conns EXCEPT ![k].acks = @ + 1, ![k].pc = "read_len"]
       \/ /\ conns[k].peer = "closed"
          /\ conns' = [conns EXCEPT ![k].pc = "done"]
    /\ UNCHANGED <<lsn, connects>>
    /\ UNCHANGED <<serverVars, fsVars, storeVars, dialVars, ioVars, routeVars, claVars>>

\* a step of the handler of connection k
HandlerStep(k) ==
    \/ ConnReadLen(k)
    \/ ConnReadPayload(k)
    \/ ConnDecode(k)
    \/ ConnCallbackReturn(k)
    \/ ConnWriteOk(k)

ListenerNext ==
    \/ ListenerBind
    \/ PeerConnect
    \/ Accept
    \/ AcceptFail
    \/ \E k \in 1..Len(conns) : PeerSendFrame(k)
    \/ \E k \in 1..Len(conns) : PeerSendRest(k)
    \/ \E k \in 1..Len(conns) : PeerStall(k)
    \/ \E k \in 1..Len(conns) : PeerClose(k)
    \/ \E k \in 1..Len(conns) : ConnReadLen(k)
    \/ \E k \in 1..Len(conns) : ConnReadPayload(k)
    \/ \E k \in 1..Len(conns) : ConnDecode(k)
    \/ \E k \in 1..Len(conns) : ConnCallbackReturn(k)
    \/ \E k \in 1..Len(conns) : ConnWriteOk(k)

InitListener ==
    IdleNet /\ ServerInit /\ IdleCla /\ IdleFs /\ IdleStoreCallers /\ IdleDialer /\ IdleIo
            /\ IdleRouting

SpecListener == InitListener /\ [][ListenerNext]_vars

\* the handler of connection k waits in a framing read for bytes of a frame
\* its peer has begun and will not finish
Stalled(k) ==
    /\ conns[k].acc
    /\ conns[k].peer = "stalled"
    /\ \/ conns[k].pc = "read_len" /\ Len(conns[k].in) < 4
       \/ conns[k].pc = "read_payload" /\ Len(conns[k].in) < conns[k].len

\* the handler of connection k waits for something that has arrived: a
\* complete prefix or payload to read, the return of the callback, the OK to
\* write
HasWork(k) ==
    /\ conns[k].acc
    /\ \/ conns[k].pc = "read_len" /\ Len(conns[k].in) >= 4
       \/ conns[k].pc = "read_payload" /\ Len(conns[k].in) >= conns[k].len
       \/ conns[k].pc \in {"callback", "write_ok"}

\* C31: a connection whose peer stops sending after a partial frame blocks
\* its own handler (no step of it is possible) and nothing else: the listener
\* can accept every connection that waits, the handler of every other
\* connection can take its next step, and the bundles a handler passed to the
\* callback and the OKs it wrote are those of the complete frames its own
\* peer wrote, in order.
C31_StalledPeerBlocksOnlyItself ==
    /\ \A k \in 1..Len(conns) : Stalled(k) => ~ENABLED HandlerStep(k)
    /\ (lsn.pc = "accept" /\ Pending # {}) => ENABLED Accept
    /\ \A k \in 1..Len(conns) : HasWork(k) => ENABLED HandlerStep(k)
    /\ \A k \in 1..Len(conns) :
          /\ Len(conns[k].got) <= Len(conns[k].sent)
          /\ conns[k].got = SubSeq(conns[k].sent, 1, Len(conns[k].got))
          /\ conns[k].acks <= Len(conns[k].got)
          /\ (conns[k].acc /\ conns[k].pc = "read_len" /\ conns[k].in = <<>>)
                => conns[k].acks = Len(conns[k].sent)
          /\ (conns[k].peer = "open" /\ conns[k].out # <<>>)
                => ENABLED PeerSendRest(k)

\* the first connection's handler is blocked in the payload read of a frame
\* its peer left unfinished; the second connection's frame was delivered and
\* acknowledged
C31_Witness ==
    /\ Len(conns) = 2
    /\ Stalled(1)
    /\ conns[1].pc = "read_payload"
    /\ conns[2].got = <<WireB2>>
    /\ conns[2].acks = 1
    /\ lsn.pc = "accept"

(***************************************************************************)
(* The bundle store: insert, dispatch_one, cleanup_expired.                *)
(***************************************************************************)
\* the bundles the callers of SpecStore hand to the store
ApiBundles == {StoreB1, StoreB1x, StoreB2}

\* the inserts in progress after the file id of the store directory has been
\* renamed into the dispatched directory ("dispatched") or removed ("gone"):
\* an open file goes with the rename and is lost with the removal, and the
\* file a rename replaces is lost as well
WrMoved(id, to) ==
    [i \in 1..Len(wr) |->
        IF wr[i].id # id THEN wr[i]
        ELSE IF wr[i].at = "store" THEN [wr[i] EXCEPT !.at = to]
        ELSE IF wr[i].at = "dispatched" /\ to = "dispatched" THEN [wr[i] EXCEPT !.at = "gone"]
        ELSE wr[i]]

\* the inserts in progress after another insert has opened the file id of
\* the store directory: those that hold this file open no longer have it to
\* themselves
WrShared(id) ==
    [i \in 1..Len(wr) |->
        IF wr[i].id = id /\ wr[i].at = "store" THEN [wr[i] EXCEPT !.alone = FALSE] ELSE wr[i]]

\* a sequence without its i-th element
RemoveAt(seq, i) == SubSeq(seq, 1, i - 1) \o SubSeq(seq, i + 1, Len(seq))

\* write_all on a file just opened: the bytes go to the start of the file and
\* what the file holds beyond them stays
WriteAtStart(old, bytes) == bytes \o SubSeq(old, Len(bytes) + 1, Len(old))

\* the byte counts a failed write_all of n bytes may have reached before the
\* error: none, a few, or all but the last
PartialLens(n) == {k \in 0..(n - 1) : k <= MaxPartial \/ k = n - 1}

\* insert(bundle), first half: fs::write opens filename_for(bundle) for
\* writing, which creates the file or truncates it to no bytes; an open that
\* fails returns the error and leaves the file as it was.  Nothing keeps
\* another insert from having the same file open.
Insert(b) ==
    /\ Len(wr) < MaxWriters
    /\ \/ /\ fault = "write"
          /\ res' = [op |-> "insert", id |-> filename_for(b), bundle |-> b, ok |-> FALSE,
                     err |-> "Io", io |-> fault,
                     pre |-> FileOf(store, filename_for(b)), alone |-> TRUE]
          /\ UNCHANGED <<store, wr>>
       \/ /\ store' = Put(store, filename_for(b), <<>>)
          /\ wr' = Append(WrShared(filename_for(b)),
                          [id |-> filename_for(b), bundle |-> b,
                           pre |-> FileOf(store, filename_for(b)), at |-> "store",
                           alone |-> \A i \in 1..Len(wr) :
                                        ~(wr[i].id = filename_for(b) /\ wr[i].at = "store")])
          /\ res' = [op |-> "insert_open", id |-> filename_for(b), bundle |-> b,
                     io |-> ""]
    /\ redisp' = redisp \ {filename_for(b)}
    /\ UNCHANGED <<dispatched, now, kpc, kIds, kCur, kLog, kErr>>
    /\ UNCHANGED <<serverVars, dialVars, ioVars, routeVars, claVars, netVars>>

\* insert(bundle), second half, of any of the inserts in progress: fs::write
\* writes the encoding at the start of the file it opened and insert
\* returns; a write that fails (file-size limit, full disk) returns the
\* error after any number of the bytes, fewer than all, have been written
InsertWrite ==
    \E i \in 1..Len(wr) :
       /\ IF fault = "write"
          THEN /\ \E k \in PartialLens(Len(Encode(wr[i].bundle))) :
                     LET part == SubSeq(Encode(wr[i].bundle), 1, k) IN
                     /\ store' = IF wr[i].at = "store"
                                 THEN Put(store, wr[i].id, WriteAtStart(store[wr[i].id], part))
                                 ELSE store
                     /\ dispatched' = IF wr[i].at = "dispatched"
                                      THEN Put(dispatched, wr[i].id,
                                               WriteAtStart(dispatched[wr[i].id], part))
                                      ELSE dispatched
               /\ res' = [op |-> "insert", id |-> wr[i].id, bundle |-> wr[i].bundle,
                          ok |-> FALSE, err |-> "Io", io |-> fault,
                          pre |-> wr[i].pre, alone |-> wr[i].alone]
          ELSE /\ store' = IF wr[i].at = "store"
                           THEN Put(store, wr[i].id,
                                    WriteAtStart(store[wr[i].id], Encode(wr[i].bundle)))
                           ELSE store
               /\ dispatched' = IF wr[i].at = "dispatched"
                                THEN Put(dispatched, wr[i].id,
                                         WriteAtStart(dispatched[wr[i].id], Encode(wr[i].bundle)))
                                ELSE dispatched
               /\ res' = [op |-> "insert", id |-> wr[i].id, bundle |-> wr[i].bundle,
                          ok |-> TRUE, err |-> "", io |-> "",
                          pre |-> wr[i].pre, alone |-> wr[i].alone]
       /\ wr' = RemoveAt(wr, i)
       /\ UNCHANGED <<now, redisp, kpc, kIds, kCur, kLog, kErr>>
       /\ UNCHANGED <<serverVars, dialVars, ioVars, routeVars, claVars, netVars>>

\* a dispatch_one that creates the destination file before it looks for the
\* source
dispatch_one_CreateFirst(src, dst, b) ==
    LET id == filename_for(b) IN
    IF id \in DOMAIN src
    THEN [ok |-> TRUE, err |-> "", src |-> Remove(src, id), dst |-> Put(dst, id, src[id])]
    ELSE [ok |-> FALSE, err |-> "NotFound", src |-> src, dst |-> Put(dst, id, <<>>)]

\* a dispatch_one that copies the file and leaves the source in place
dispatch_one_Copy(src, dst, b) ==
    LET id == filename_for(b) IN
    IF id \in DOMAIN src
    THEN [ok |-> TRUE, err |-> "", src |-> src, dst |-> Put(dst, id, src[id])]
    ELSE [ok |-> FALSE, err |-> "NotFound", src |-> src, dst |-> dst]

\* dispatch_one(bundle, dispatched_dir): fs::rename of filename_for(bundle) from
\* the store directory src into the other directory dst: [ok, err, src, dst]
dispatch_one(src, dst, b) ==
    LET id == filename_for(b) IN
    IF id \in DOMAIN src
    THEN [ok |-> TRUE, err |-> "", src |-> Remove(src, id), dst |-> Put(dst, id, src[id])]
    ELSE [ok |-> FALSE, err |-> "NotFound", src |-> src, dst |-> dst]

\* a caller's dispatch_one(bundle, dispatched_dir); a failing create_dir_all
\* or rename returns the error and moves nothing
DispatchOne(b) ==
    LET id == filename_for(b)
        failing == fault = "create_dir" \/ (fault = "rename" /\ id \in DOMAIN store)
        r == IF failing
             THEN [ok |-> FALSE, err |-> "Io", src |-> store, dst |-> dispatched]
             ELSE dispatch_one(store, dispatched, b)
    IN
    /\ store' = r.src
    /\ dispatched' = r.dst
    /\ res' = [op |-> "dispatch", id |-> id, bundle |-> b, ok |-> r.ok, err |-> r.err,
               io |-> IF failing THEN fault ELSE "",
               again |-> id \in redisp,
               preSrc |-> FileOf(store, id), preDst |-> FileOf(dispatched, id)]
    /\ redisp' = IF r.ok THEN redisp \cup {id} ELSE redisp
    /\ wr' = IF r.ok THEN WrMoved(id, "dispatched") ELSE wr
    /\ UNCHANGED <<now, kpc, kIds, kCur, kLog, kErr>>
    /\ UNCHANGED <<serverVars, dialVars, ioVars, routeVars, claVars, netVars>>

\* a file of the store directory is removed from outside the store
\* (fs::remove_file, as the store's tests do)
ExternalRemove ==
    /\ \E id \in DOMAIN store :
          /\ store' = Remove(store, id)
          /\ wr' = WrMoved(id, "gone")
    /\ UNCHANGED <<dispatched, now, res, redisp, kpc, kIds, kCur, kLog, kErr>>
    /\ UNCHANGED <<serverVars, dialVars, ioVars, routeVars, claVars, netVars>>

\* a file of the store directory is overwritten with bytes that are no bundle
ExternalCorrupt ==
    /\ \E id \in DOMAIN store :
          /\ store[id] # CorruptFile
          /\ store' = [store EXCEPT ![id] = CorruptFile]
    /\ UNCHANGED <<dispatched, now, storeVars>>
    /\ UNCHANGED <<serverVars, dialVars, ioVars, routeVars, claVars, netVars>>

\* the wall clock advances
Tick ==
    /\ now < MaxNow
    /\ now' = now + 1
    /\ UNCHANGED <<store, dispatched, storeVars>>
    /\ UNCHANGED <<serverVars, dialVars, ioVars, routeVars, claVars, netVars>>

\* cleanup_expired: let ids = self.list()?; the early return on an empty list
CleanupStart ==
    /\ kpc = "idle"
    /\ IF list_io(store, fault).ok
       THEN \E ids \in list_io(store, fault).ids :
               /\ kIds' = ids
               /\ kpc' = IF ids = <<>> THEN "done_ok" ELSE "loop"
               /\ UNCHANGED kErr
       ELSE /\ kpc' = "done_err"
            /\ kErr' = list_io(store, fault).err
            /\ UNCHANGED kIds
    /\ UNCHANGED <<kCur, kLog, res, redisp, wr>>
    /\ UNCHANGED <<fsVars, serverVars, dialVars, ioVars, routeVars, claVars, netVars>>

\* where the loop goes after an identifier, given the identifiers left
AfterVisit(rest) == IF rest = <<>> THEN "done_ok" ELSE "loop"

\* a visit that returns every load failure to the caller
CleanupOnLoad_NoSkip(id, r, rest) ==
    IF r.ok
    THEN /\ kLog' = Append(kLog, [id |-> id, load |-> "ok", expired |-> is_expired(r.val, now),
                                  bundle |-> r.val, io |-> r.io])
         /\ IF is_expired(r.val, now)
            THEN kpc' = "remove" /\ kCur' = id
            ELSE kpc' = AfterVisit(rest) /\ UNCHANGED kCur
         /\ UNCHANGED kErr
    ELSE /\ kLog' = Append(kLog, [id |-> id, load |-> r.err, expired |-> FALSE,
                                  bundle |-> NoBundle, io |-> r.io])
         /\ kpc' = "done_err"
         /\ kErr' = r.err
         /\ UNCHANGED kCur

\* the body of the loop for one identifier, given the result of the load
CleanupOnLoad(id, r, rest) ==
    IF r.ok
    THEN /\ kLog' = Append(kLog, [id |-> id, load |-> "ok", expired |-> is_expired(r.val, now),
                                  bundle |-> r.val, io |-> r.io])
         /\ IF is_expired(r.val, now)
            THEN kpc' = "remove" /\ kCur' = id
            ELSE kpc' = AfterVisit(rest) /\ UNCHANGED kCur
         /\ UNCHANGED kErr
    ELSE /\ kLog' = Append(kLog, [id |-> id, load |-> r.err, expired |-> FALSE,
                                  bundle |-> NoBundle, io |-> r.io])
         /\ IF r.err = "NotFound"
            THEN \* continue
                 kpc' = AfterVisit(rest) /\ UNCHANGED kErr
            ELSE \* return Err(e)
                 kpc' = "done_err" /\ kErr' = r.err
         /\ UNCHANGED kCur

\* cleanup_expired: self.load_by_partial_id(&id) and the match on its result
CleanupVisit ==
    /\ kpc = "loop"
    /\ kIds' = Tail(kIds)
    /\ \E r \in load_by_partial_id_io(store, Head(kIds), fault) :
          CleanupOnLoad(Head(kIds), r, Tail(kIds))
    /\ UNCHANGED <<res, redisp, wr>>
    /\ UNCHANGED <<fsVars, serverVars, dialVars, ioVars, routeVars, claVars, netVars>>

\* a cleanup that finds the expired bundle and leaves its file in place
CleanupRemove_Skip ==
    /\ kpc = "remove"
    /\ kpc' = AfterVisit(kIds)
    /\ UNCHANGED <<store, dispatched, now, kIds, kCur, kLog, kErr, res, redisp, wr>>
    /\ UNCHANGED <<serverVars, dialVars, ioVars, routeVars, claVars, netVars>>

\* cleanup_expired: std::fs::remove_file(&path); NotFound is let pass, any
\* other failure is returned
CleanupRemove ==
    /\ kpc = "remove"
    /\ IF fault = "remove" /\ kCur \in DOMAIN store
       THEN /\ kpc' = "done_err"
            /\ kErr' = "Io"
            /\ UNCHANGED store
       ELSE /\ store' = Remove(store, kCur)
            /\ kpc' = AfterVisit(kIds)
            /\ UNCHANGED kErr
    /\ wr' = IF fault = "remove" THEN wr ELSE WrMoved(kCur, "gone")
    /\ UNCHANGED <<dispatched, now, kIds, kCur, kLog, res, redisp>>
    /\ UNCHANGED <<serverVars, dialVars, ioVars, routeVars, claVars, netVars>>

StoreInit ==
    /\ store = NoFiles
    /\ dispatched = NoFiles
    /\ now = 2
    /\ IdleStoreCallers

\* callers that insert and dispatch, with files removed and overwritten from
\* outside
StoreNext ==
    \/ \E b \in ApiBundles : Insert(b)
    \/ InsertWrite
    \/ \E b \in ApiBundles : DispatchOne(b)
    \/ ExternalRemove
    \/ ExternalCorrupt

InitStore == StoreInit /\ ServerInit /\ IdleNet /\ IdleCla /\ IdleDialer /\ IdleIo /\ IdleRouting

SpecStore == InitStore /\ [][StoreNext]_vars

\* one cleanup_expired while other callers insert, files are removed and
\* overwritten from outside, and the clock advances
CleanupRaceNext ==
    \/ \E b \in ApiBundles : Insert(b)
    \/ InsertWrite
    \/ ExternalRemove
    \/ ExternalCorrupt
    \/ Tick
    \/ CleanupStart
    \/ CleanupVisit
    \/ CleanupRemove

InitCleanupRace == StoreInit /\ ServerInit /\ IdleNet /\ IdleCla /\ IdleDialer /\ IdleIo /\ IdleRouting

SpecCleanupRace == InitCleanupRace /\ [][CleanupRaceNext]_vars


(***************************************************************************)
(* Properties of the store.                                                *)
(***************************************************************************)
\* C9 (as amended): after a successful dispatch_one(b, target_dir) b's
\* identifier is not in list() of the source store and the file the source
\* held under that identifier is in target_dir under the same identifier, so
\* it loads as b whenever it was b's record; the call fails only when the
\* source file is missing; a second dispatch_one(b, target_dir) with no insert
\* in between fails with "not found" and leaves the copy in target_dir intact.
C9_DispatchMovesFile ==
    res.op = "dispatch" =>
       /\ res.ok =>
            /\ res.preSrc # <<>>
            /\ res.id \notin DOMAIN store
            /\ FileOf(dispatched, res.id) = res.preSrc
            /\ res.preSrc = <<Encode(res.bundle)>> =>
                  load(dispatched, res.id) = [ok |-> TRUE, err |-> "", val |-> res.bundle]
       /\ ~res.ok => res.preSrc = <<>> /\ res.err = "NotFound"
       /\ res.again =>
            /\ ~res.ok
            /\ res.preDst # <<>>
            /\ FileOf(dispatched, res.id) = res.preDst

C9_Witness ==
    /\ res.op = "dispatch"
    /\ res.again
    /\ ~res.ok
    /\ FileOf(dispatched, res.id) = <<Encode(res.bundle)>>

\* C9 (as stated): after a successful dispatch_one(b, target_dir) the
\* identifier is gone from the source and loads from target_dir with b's
\* content; a second call fails and leaves the copy intact.
C9_DispatchKeepsContent ==
    res.op = "dispatch" =>
       /\ res.ok =>
            /\ res.id \notin DOMAIN store
            /\ load(dispatched, res.id) = [ok |-> TRUE, err |-> "", val |-> res.bundle]
       /\ res.again =>
            /\ ~res.ok
            /\ FileOf(dispatched, res.id) = res.preDst

\* C10: in cleanup_expired a load that fails with "not found" is skipped and
\* the identifiers after it are still visited; any other load failure ends
\* cleanup_expired at once and is the error it returns; it returns an error
\* for no other reason, and returns success only with every identifier visited.
C10_CleanupSkipsNotFound ==
    /\ \A i \in 1..Len(kLog) :
          /\ kLog[i].load = "NotFound" => ~(kpc = "done_err" /\ i = Len(kLog))
          /\ kLog[i].load \notin {"ok", "NotFound"} =>
                i = Len(kLog) /\ kpc = "done_err" /\ kErr = kLog[i].load
    /\ kpc = "done_err" =>
          Len(kLog) > 0 /\ kLog[Len(kLog)].load \notin {"ok", "NotFound"}
    /\ kpc = "done_ok" => kIds = <<>> /\ kErr = ""
    /\ kpc \in {"loop", "remove"} => kErr = ""

C10_Witness ==
    /\ kpc = "done_ok"
    /\ Len(kLog) = 2
    /\ kLog[1].load = "NotFound"
    /\ kLog[2].load = "ok"
    /\ kLog[2].expired
    /\ kLog[2].id \notin DOMAIN store


\* C35: cleanup_expired never removes a bundle that is not expired, whatever
\* the other store operations do meanwhile: the file its remove step deletes
\* holds, when it holds a bundle, a bundle that is expired at that moment.
C35_CleanupRemovesOnlyExpired ==
    [][CleanupRemove =>
         ((kCur \in DOMAIN store /\ Decode(store[kCur]).ok /\ kCur \notin DOMAIN store')
             => is_expired(Decode(store[kCur]).val, now))]_vars

\* C37: at every moment an identifier is present in at most one of the
\* active store directory and the dispatched directory.
C37_ActiveAndDispatchedDisjoint ==
    DOMAIN store \cap DOMAIN dispatched = {}

(***************************************************************************)
(* Expiry.  SpecExpiry constructs bundles and asks is_expired() of them    *)
(* and of bundles with short lifetimes while the clock advances.           *)
(***************************************************************************)
\* bundles with creation timestamps and lifetimes around the clock's range
ExpiryBundles ==
    {MkBundle(EidA, EidB, ReportNone, ts, life, <<>>) : ts \in 0..2, life \in 0..2}

\* Bundle::new(source, destination, payload), then is_expired() of the result
BundleNew ==
    /\ LET b == MkBundle(EidA, EidB, ReportNone, now, NEW_LIFETIME, <<1>>) IN
       res' = [op |-> "new", bundle |-> b, at |-> now, expired |-> is_expired(b, now)]
    /\ UNCHANGED <<redisp, kpc, kIds, kCur, kLog, kErr, wr>>
    /\ UNCHANGED <<fsVars, serverVars, dialVars, ioVars, routeVars, claVars, netVars>>

\* is_expired() of a bundle
CallIsExpired ==
    /\ \E b \in ExpiryBundles :
          res' = [op |-> "is_expired", bundle |-> b, at |-> now,
                  expired |-> is_expired(b, now)]
    /\ UNCHANGED <<redisp, kpc, kIds, kCur, kLog, kErr, wr>>
    /\ UNCHANGED <<fsVars, serverVars, dialVars, ioVars, routeVars, claVars, netVars>>

ExpiryInit ==
    /\ store = NoFiles
    /\ dispatched = NoFiles
    /\ now = 0
    /\ IdleStoreCallers

ExpiryNext ==
    \/ Tick
    \/ BundleNew
    \/ CallIsExpired

InitExpiry == ExpiryInit /\ ServerInit /\ IdleNet /\ IdleCla /\ IdleDialer /\ IdleIo /\ IdleRouting

SpecExpiry == InitExpiry /\ [][ExpiryNext]_vars

\* the last second at which the bundle is not expired
Deadline(b) == b.creation_timestamp + b.lifetime

\* C15: is_expired() is true exactly when the clock is past
\* creation_timestamp + lifetime: false right after construction (the lifetime
\* is positive), false while now <= creation_timestamp + lifetime, true at
\* every time after that.
C15_ExpiredExactlyAfterDeadline ==
    /\ res.op = "new" => (res.bundle.lifetime > 0 /\ ~res.expired)
    /\ res.op = "is_expired" =>
          /\ res.at <= Deadline(res.bundle) => ~res.expired
          /\ res.at > Deadline(res.bundle) => res.expired
          /\ res.expired => \A t \in res.at..now : is_expired(res.bundle, t)
          /\ ~res.expired => \A t \in 0..res.at : ~is_expired(res.bundle, t)

C15_Witness ==
    /\ res.op = "is_expired"
    /\ res.bundle.lifetime > 0
    /\ res.expired
    /\ res.at = Deadline(res.bundle) + 1
    /\ now > res.at

(***************************************************************************)
(* Identifiers.  SpecIds inserts bundles whose EIDs may contain ':', the   *)
(* separator filename_for puts between the fields.                         *)
(***************************************************************************)
\* bundles over two sources and two destinations, one with a later
\* timestamp, each with a payload of its own, and the two bundles of the store
\* that agree with the first of them in version, source, destination and
\* creation_timestamp and have a shorter encoding
IdBundles ==
    {MkBundle(sd[1], sd[2], ReportNone, 1, 1, <<Len(sd[1]), Len(sd[2]), 1>>) :
        sd \in {EidA, EidAB} \X {EidB, EidBB}}
      \cup {MkBundle(EidA, EidB, ReportNone, 2, 1, <<1, 1, 2>>)}
      \cup {StoreB1, StoreB1x}

IdsNext ==
    \/ \E b \in IdBundles : Insert(b)
    \/ InsertWrite

InitIds == StoreInit /\ ServerInit /\ IdleNet /\ IdleCla /\ IdleDialer /\ IdleIo /\ IdleRouting

SpecIds == InitIds /\ [][IdsNext]_vars

Triple(b) == <<b.source, b.destination, b.creation_timestamp>>

SameIdentity(b, c) == b.version = c.version /\ Triple(b) = Triple(c)

\* the file under id before the last insert
PreFile(id) == IF id = res.id THEN res.pre ELSE FileOf(store, id)

\* the store held b's record before the last insert
WasStored(b) == PreFile(filename_for(b)) = <<Encode(b)>>

\* C12: for two bundles whose (source, destination, creation_timestamp)
\* triples differ, whatever strings the EIDs are, after inserting both list()
\* holds two distinct identifiers and each loads with its bundle's own payload.
C12_DistinctTriplesDistinctIds ==
    res.op = "insert" =>
       \A b \in IdBundles :
          (Triple(b) # Triple(res.bundle) /\ WasStored(b)) =>
             /\ filename_for(b) # res.id
             /\ \A ids \in list(store) :
                   \E i, j \in 1..Len(ids) :
                      i # j /\ ids[i] = filename_for(b) /\ ids[j] = res.id
             /\ load(store, filename_for(b)).ok
             /\ load(store, filename_for(b)).val.payload = b.payload
             /\ load(store, res.id).ok
             /\ load(store, res.id).val.payload = res.bundle.payload

\* C13: two bundles with the same version, source, destination and
\* creation_timestamp get the same identifier even when payload, report_to or
\* lifetime differ: after inserting both, one after the other, list() holds
\* that identifier once and it loads as the bundle inserted later.
C13_SameIdentityOverwrites ==
    res.op = "insert" =>
       /\ \A c \in IdBundles : SameIdentity(c, res.bundle) => filename_for(c) = res.id
       /\ \A c \in IdBundles :
             (SameIdentity(c, res.bundle) /\ WasStored(c)) =>
                /\ \A ids \in list(store) :
                      Cardinality({i \in 1..Len(ids) : ids[i] = filename_for(c)}) = 1
                /\ \A ids \in list(store) :
                      Cardinality({i \in 1..Len(ids) : ids[i] = res.id}) = 1
                /\ res.alone =>
                      load(store, filename_for(c)) = [ok |-> TRUE, err |-> "", val |-> res.bundle]

C13_Witness ==
    /\ res.op = "insert"
    /\ res.alone
    /\ res.bundle = StoreB1x
    /\ res.pre = <<Encode(StoreB1)>>
    /\ StoreB1.report_to # StoreB1x.report_to
    /\ StoreB1.lifetime # StoreB1x.lifetime
    /\ StoreB1.payload # StoreB1x.payload
    /\ load(store, filename_for(StoreB1)).val = StoreB1x

(***************************************************************************)
(* cleanup_expired alone on a store that nothing else modifies: the store  *)
(* holds any bundles with distinct identifiers, the call starts at any     *)
(* time, and the clock may advance while it runs.                          *)
(***************************************************************************)
\* the sets of bundles a store can hold at once: one record per identifier
Holdings ==
    {S \in SUBSET StoreBundles :
        \A b, c \in S : filename_for(b) = filename_for(c) => b = c}

CleanupInit ==
    /\ \E S \in Holdings : store = StoreOf(S)
    /\ dispatched = NoFiles
    /\ now \in 1..MaxNow
    /\ IdleStoreCallers

CleanupNext ==
    \/ Tick
    \/ CleanupStart
    \/ CleanupVisit
    \/ CleanupRemove

InitCleanup == CleanupInit /\ ServerInit /\ IdleNet /\ IdleCla /\ IdleDialer /\ IdleIo /\ IdleRouting

SpecCleanup == InitCleanup /\ [][CleanupNext]_vars

\* the visits of the cleanup that loaded a bundle and found it (not) expired
Visits(exp) == {i \in 1..Len(kLog) : kLog[i].load = "ok" /\ kLog[i].expired = exp}

\* C11: when cleanup_expired has returned success and nothing else modified
\* the store, every bundle that was present was examined once; list() holds
\* exactly the identifiers of the bundles found not expired, each with the
\* record it had; every bundle found expired has been removed and is expired;
\* every bundle that is not expired when the call returns is still present.
C11_CleanupKeepsExactlyUnexpired ==
    kpc = "done_ok" =>
       /\ \A i \in 1..Len(kLog) :
             /\ kLog[i].load = "ok"
             /\ \A j \in 1..Len(kLog) : kLog[j].id = kLog[i].id => j = i
             /\ ~is_expired(kLog[i].bundle, now) =>
                   load(store, kLog[i].id) = [ok |-> TRUE, err |-> "", val |-> kLog[i].bundle]
       /\ \A ids \in list(store) :
             {ids[k] : k \in 1..Len(ids)} = {kLog[i].id : i \in Visits(FALSE)}
       /\ \A i \in Visits(FALSE) : store[kLog[i].id] = Encode(kLog[i].bundle)
       /\ \A i \in Visits(TRUE) :
             kLog[i].id \notin DOMAIN store /\ is_expired(kLog[i].bundle, now)

C11_Witness ==
    /\ kpc = "done_ok"
    /\ Len(kLog) = 3
    /\ Cardinality(Visits(TRUE)) = 1
    /\ Cardinality(DOMAIN store) = 2
    /\ \A id \in DOMAIN store : load(store, id).ok

(***************************************************************************)
(* The store when calls of the file system fail.  SpecFaults runs the      *)
(* operations of BundleStore while the environment decides which call      *)
(* fails (a directory that cannot be read, a disk that cannot be written). *)
(***************************************************************************)
FaultBundles == {StoreB1, StoreB2}

\* the environment: a call of the file system starts or stops failing
SetFault ==
    /\ \E f \in Faults \ {fault} : fault' = f
    /\ UNCHANGED <<fsVars, storeVars, serverVars, dialVars, routeVars, claVars, netVars>>

\* BundleStore::new(path): fs::create_dir_all(&dir)?
StoreNew ==
    /\ res' = IF fault = "create_dir"
              THEN [op |-> "new", ok |-> FALSE, err |-> "Io", io |-> fault]
              ELSE [op |-> "new", ok |-> TRUE, err |-> "", io |-> ""]
    /\ UNCHANGED <<redisp, kpc, kIds, kCur, kLog, kErr, wr>>
    /\ UNCHANGED <<fsVars, serverVars, dialVars, ioVars, routeVars, claVars, netVars>>

\* a caller's list()
StoreList ==
    /\ res' = [op |-> "list", ok |-> list_io(store, fault).ok,
               err |-> list_io(store, fault).err, io |-> list_io(store, fault).io]
    /\ UNCHANGED <<redisp, kpc, kIds, kCur, kLog, kErr, wr>>
    /\ UNCHANGED <<fsVars, serverVars, dialVars, ioVars, routeVars, claVars, netVars>>

\* a caller's load(id)
StoreLoad ==
    /\ \E b \in FaultBundles :
          LET r == load_io(store, filename_for(b), fault) IN
          res' = [op |-> "load", id |-> filename_for(b), ok |-> r.ok, err |-> r.err,
                  io |-> r.io]
    /\ UNCHANGED <<redisp, kpc, kIds, kCur, kLog, kErr, wr>>
    /\ UNCHANGED <<fsVars, serverVars, dialVars, ioVars, routeVars, claVars, netVars>>

\* a caller's load_by_partial_id(partial)
StoreLoadByPartialId ==
    /\ \E b \in FaultBundles :
          \E r \in load_by_partial_id_io(store, filename_for(b), fault) :
             res' = [op |-> "load_by_partial_id", id |-> filename_for(b), ok |-> r.ok,
                     err |-> r.err, io |-> r.io]
    /\ UNCHANGED <<redisp, kpc, kIds, kCur, kLog, kErr, wr>>
    /\ UNCHANGED <<fsVars, serverVars, dialVars, ioVars, routeVars, claVars, netVars>>

FaultsInit ==
    /\ store = StoreOf(FaultBundles)
    /\ dispatched = NoFiles
    /\ now = 3
    /\ IdleStoreCallers
    /\ IdleIo

FaultsNext ==
    \/ SetFault
    \/ StoreNew
    \/ StoreList
    \/ StoreLoad
    \/ StoreLoadByPartialId
    \/ Insert(StoreB1)
    \/ InsertWrite
    \/ CleanupStart
    \/ CleanupVisit
    \/ CleanupRemove

InitFaults == FaultsInit /\ ServerInit /\ IdleNet /\ IdleCla /\ IdleDialer /\ IdleRouting

SpecFaults == InitFaults /\ [][FaultsNext]_vars

\* insert and dispatch_one while calls of the file system fail
DispatchFaultsNext ==
    \/ SetFault
    \/ StoreList
    \/ Insert(StoreB1)
    \/ InsertWrite
    \/ DispatchOne(StoreB1)

InitDispatchFaults == FaultsInit /\ ServerInit /\ IdleNet /\ IdleCla /\ IdleDialer /\ IdleRouting

SpecDispatchFaults == InitDispatchFaults /\ [][DispatchFaultsNext]_vars

\* C14: every failure of a file-system call inside a BundleStore operation
\* (directory creation, listing, file read, write, rename, removal) is
\* returned to the caller of that operation as an error: it is not swallowed,
\* not reported as success and not turned into "not found".
C14_IoFailuresReturned ==
    /\ (res.op # "none" /\ res.io # "") => (~res.ok /\ res.err = "Io")
    /\ \A i \in 1..Len(kLog) :
          kLog[i].io # "" => (i = Len(kLog) /\ kpc = "done_err" /\ kErr = "Io")

\* C40: dispatch_one(b, target_dir) changes only b's own record: every other
\* identifier of the active store and its content are the same before and
\* after the call, and when the call fails the active store is unchanged
\* and no record for b has appeared in target_dir.
C40_DispatchTouchesOnlyItsRecord ==
    [][\A b \in FaultBundles :
          DispatchOne(b) =>
             /\ \A id \in (DOMAIN store \cup DOMAIN store') \ {filename_for(b)} :
                   FileOf(store', id) = FileOf(store, id)
             /\ ~res'.ok =>
                   /\ store' = store
                   /\ FileOf(dispatched', filename_for(b)) = FileOf(dispatched, filename_for(b))]_vars

\* a dispatch failed on the rename with both bundles in the store, and one
\* failed because the file was not there while the other bundle was
C40_Witness ==
    /\ res.op = "dispatch"
    /\ ~res.ok
    /\ filename_for(StoreB2) \in DOMAIN store
    /\ \/ res.io = "rename" /\ res.preSrc # <<>>
       \/ res.err = "NotFound" /\ res.preDst # <<>>

(***************************************************************************)
(* Integer widths.  A u64 or usize is four 16-bit limbs, a u32 two, most   *)
(* significant first, so that values up to 2^64 - 1 and the carry out of   *)
(* an addition are exact.  SpecWide calls send_bundle's length computation *)
(* on encoded sizes around 2^16 and 2^32, and is_expired() on timestamps   *)
(* and lifetimes around 0, 2^63 and 2^64.                                   *)
(***************************************************************************)
\* the value range of one limb
LimbBase == 65536

\* x + y of two u64 values: [sum, overflow], sum the low 64 bits
Add64(x, y) ==
    LET c0 == x[4] + y[4]
        c1 == x[3] + y[3] + (c0 \div LimbBase)
        c2 == x[2] + y[2] + (c1 \div LimbBase)
        c3 == x[1] + y[1] + (c2 \div LimbBase)
    IN [sum |-> <<c3 % LimbBase, c2 % LimbBase, c1 % LimbBase, c0 % LimbBase>>,
        overflow |-> c3 \div LimbBase > 0]

\* x > y of two values with the same number of limbs
GtLimbs(x, y) ==
    \E i \in 1..Len(x) : x[i] > y[i] /\ \A j \in 1..(i - 1) : x[j] = y[j]

\* now > creation_timestamp + lifetime over the integers: the sum with its
\* carry as a fifth limb
MathExpired(ts, life, t) ==
    LET a == Add64(ts, life) IN
    GtLimbs(<<0>> \o t, <<IF a.overflow THEN 1 ELSE 0>> \o a.sum)

\* Bundle::is_expired over u64: the outcomes of
\*   now > self.primary.creation_timestamp + self.primary.lifetime
\* the addition is unchecked: when it overflows, a build with overflow checks
\* (debug) panics and a build without them (release) wraps
is_expired_u64(ts, life, t) ==
    LET a == Add64(ts, life) IN
    IF a.overflow
    THEN {[panic |-> TRUE, expired |-> FALSE],
          [panic |-> FALSE, expired |-> GtLimbs(t, a.sum)]}
    ELSE {[panic |-> FALSE, expired |-> GtLimbs(t, a.sum)]}

\* encoded.len() as u32: the low 32 bits of the usize
as_u32(n) == <<n[3], n[4]>>

\* len.to_be_bytes() of a u32
to_be_bytes_u32(w) == <<w[1] \div 256, w[1] % 256, w[2] \div 256, w[2] % 256>>

\* u32::from_be_bytes(len_buf) as usize, as the receiver computes it
from_be_bytes_usize(bytes) ==
    <<0, 0, bytes[1] * 256 + bytes[2], bytes[3] * 256 + bytes[4]>>

\* u64 values at the edges of the range
WideValues == {<<a, 0, 0, b>> : a \in {0, 32768, 65535}, b \in {0, 1, 65535}}

\* encoded sizes of a bundle: small ones, and ones around 2^16 and 2^32
EncodedSizes == {<<0, a, b, c>> : a \in {0, 1}, b \in {0, 1, 65535}, c \in {0, 1, 20, 65535}}

\* send_bundle's length prefix for a bundle whose encoding has n bytes, all
\* of which are written after the prefix
SendBundleSized ==
    /\ \E n \in EncodedSizes :
          res' = [op |-> "send_bundle", size |-> n, written |-> n,
                  prefix |-> to_be_bytes_u32(as_u32(n))]
    /\ UNCHANGED <<redisp, kpc, kIds, kCur, kLog, kErr, wr>>
    /\ UNCHANGED <<fsVars, serverVars, dialVars, ioVars, routeVars, claVars, netVars>>

\* is_expired() of a bundle with any u64 timestamp and lifetime, at any time
CallIsExpiredWide ==
    /\ \E ts \in WideValues, life \in WideValues, t \in WideValues :
       \E r \in is_expired_u64(ts, life, t) :
          res' = [op |-> "is_expired_u64", ts |-> ts, lifetime |-> life, at |-> t,
                  panic |-> r.panic, expired |-> r.expired]
    /\ UNCHANGED <<redisp, kpc, kIds, kCur, kLog, kErr, wr>>
    /\ UNCHANGED <<fsVars, serverVars, dialVars, ioVars, routeVars, claVars, netVars>>

WideNext ==
    \/ SendBundleSized
    \/ CallIsExpiredWide

SpecWide == InitServer /\ [][WideNext]_vars

\* C33: for every bundle the sender transmits, whatever its encoded size, the
\* value the receiver reads from the 4-byte big-endian length prefix equals
\* the number of encoded bytes written after it.
C33_PrefixEqualsEncodedSize ==
    res.op = "send_bundle" => from_be_bytes_usize(res.prefix) = res.written

\* C39: is_expired() equals the comparison now > creation_timestamp +
\* lifetime over the integers for all u64 values, those whose sum exceeds
\* the 64-bit range included, and the call never aborts.
C39_ExpiredExactForAllU64 ==
    res.op = "is_expired_u64" =>
       /\ ~res.panic
       /\ res.expired = MathExpired(res.ts, res.lifetime, res.at)

(***************************************************************************)
(* The receiving node: the listener DtnNode::start_tcp_listener starts,    *)
(* whose callback stores the received bundle in the node's store.          *)
(***************************************************************************)
\* the receive callback of start_tcp_listener, called by the handler:
\*   if let Ok(store) = BundleStore::new(&store_path) { let _ = store.insert(&bundle); }
\* the results of new and of insert are dropped.  First half: new, and the
\* truncating open of insert's fs::write
NodeCallback ==
    /\ hpc = "callback"
    /\ LET b == callbacks[Len(callbacks)] IN
       \/ /\ fault \in {"create_dir", "write"}
          /\ hpc' = "write_ok"
          /\ UNCHANGED store
       \/ /\ fault # "create_dir"
          /\ store' = Put(store, filename_for(b), <<>>)
          /\ hpc' = "callback_write"
    /\ UNCHANGED <<cIn, cState, nSent, cPend, hLen, hEnd, rx, callbacks, acks>>
    /\ UNCHANGED <<dispatched, now>>
    /\ UNCHANGED <<storeVars, dialVars, ioVars, routeVars, claVars, netVars>>

\* second half: fs::write writes the encoding and the callback returns; a
\* write that fails has written any number of the bytes, fewer than all
NodeCallbackWrite ==
    /\ hpc = "callback_write"
    /\ LET b == callbacks[Len(callbacks)] IN
       IF fault = "write"
       THEN \E k \in PartialLens(Len(Encode(b))) :
               store' = Put(store, filename_for(b), SubSeq(Encode(b), 1, k))
       ELSE store' = Put(store, filename_for(b), Encode(b))
    /\ hpc' = "write_ok"
    /\ UNCHANGED <<cIn, cState, nSent, cPend, hLen, hEnd, rx, callbacks, acks>>
    /\ UNCHANGED <<dispatched, now>>
    /\ UNCHANGED <<storeVars, dialVars, ioVars, routeVars, claVars, netVars>>

ReceiverNext ==
    \/ ClientSendFrame
    \/ ClientSendRest
    \/ ClientSendPartial
    \/ ClientClose
    \/ ClientReset
    \/ ReadLen
    \/ ReadPayload
    \/ NodeCallback
    \/ NodeCallbackWrite
    \/ WriteOk
    \/ SetFault

SpecReceiver == InitServer /\ [][ReceiverNext]_vars

\* C34: when the listener has written OK for a frame, the bundle of that
\* frame is in the receiving node's bundle store: the store holds a record
\* under its identifier, and the record is a bundle.
C34_OkMeansStored ==
    \A i \in 1..Len(acks) :
       acks[i].bytes = AckOK =>
          /\ filename_for(Decode(rx[acks[i].frame]).val) \in DOMAIN store
          /\ Decode(store[filename_for(Decode(rx[acks[i].frame]).val)]).ok

(***************************************************************************)
(* Forwarding decisions.  SpecRouting holds one descriptor and one list of *)
(* candidate peers (the registry's peers, for the node's operations) and   *)
(* runs the descriptor's operations and the selections in any order.       *)
(***************************************************************************)
RoutingEids == {EidA, EidB}

\* the peers: an address answers the probe ("p") or does not ("q")
PeerPool ==
    {[eid |-> e, address |-> a, reachable |-> (a = "p")] :
        e \in RoutingEids, a \in {"p", "q"}}

CandidateLists == UNION {[1..n -> PeerPool] : n \in 0..MaxPeers}

\* the EIDs of a sequence of peers, in order
EidsOf(ps) == [k \in 1..Len(ps) |-> ps[k].eid]

\* descriptor.mark_sent(eid)
MarkSent ==
    /\ \E e \in RoutingEids :
          /\ descriptor' = [descriptor EXCEPT !.already_sent = mark_sent(@, e)]
          /\ selected' = [op |-> "mark_sent", eid |-> e, sent |-> descriptor.already_sent]
    /\ UNCHANGED <<all_peers, routes, algorithm>>
    /\ UNCHANGED <<fsVars, storeVars, serverVars, dialVars, ioVars, claVars, netVars>>

\* descriptor.increment_forwarding_attempts()
IncrementAttempts ==
    /\ descriptor.forwarding_attempts < MaxAttempts
    /\ descriptor' = [descriptor EXCEPT !.forwarding_attempts = @ + 1]
    /\ selected' = [op |-> "increment", sent |-> descriptor.already_sent]
    /\ UNCHANGED <<all_peers, routes, algorithm>>
    /\ UNCHANGED <<fsVars, storeVars, serverVars, dialVars, ioVars, claVars, netVars>>

\* algorithm.select_peers_for_forwarding(&descriptor, &all_peers)
SelectPeers ==
    /\ LET hs == AlgSelectPeers(algorithm, descriptor, all_peers) IN
       selected' = [op |-> "select_peers", sent |-> descriptor.already_sent,
                    handles |-> hs, peers |-> OwnedPeers(all_peers, hs)]
    /\ UNCHANGED <<descriptor, all_peers, routes, algorithm>>
    /\ UNCHANGED <<fsVars, storeVars, serverVars, dialVars, ioVars, claVars, netVars>>

\* algorithm.select_peers_for_forwarding_async(&descriptor, &all_peers)
SelectPeersAsync ==
    /\ LET hs == AlgSelectPeersAsync(algorithm, descriptor, all_peers) IN
       selected' = [op |-> "select_peers_async", sent |-> descriptor.already_sent,
                    handles |-> hs, peers |-> OwnedPeers(all_peers, hs)]
    /\ UNCHANGED <<descriptor, all_peers, routes, algorithm>>
    /\ UNCHANGED <<fsVars, storeVars, serverVars, dialVars, ioVars, claVars, netVars>>

\* DtnNode::select_peers_for_forwarding(bundle): a descriptor made for the
\* call, the reachable peers of the registry, the algorithm's selection
NodeSelectPeers ==
    /\ LET fresh == NewDescriptor(descriptor.bundle, now)
           peers == list_reachable_peers(all_peers)
           hs == AlgSelectPeers(algorithm, fresh, peers)
       IN selected' = [op |-> "node_select_peers", sent |-> descriptor.already_sent,
                       handles |-> hs, peers |-> OwnedPeers(peers, hs)]
    /\ UNCHANGED <<descriptor, all_peers, routes, algorithm>>
    /\ UNCHANGED <<fsVars, storeVars, serverVars, dialVars, ioVars, claVars, netVars>>

\* DtnNode::select_peers_for_forwarding_async(bundle)
NodeSelectPeersAsync ==
    /\ LET fresh == NewDescriptor(descriptor.bundle, now)
           peers == list_reachable_peers(all_peers)
           hs == AlgSelectPeersAsync(algorithm, fresh, peers)
       IN selected' = [op |-> "node_select_peers_async", sent |-> descriptor.already_sent,
                       handles |-> hs, peers |-> OwnedPeers(peers, hs)]
    /\ UNCHANGED <<descriptor, all_peers, routes, algorithm>>
    /\ UNCHANGED <<fsVars, storeVars, serverVars, dialVars, ioVars, claVars, netVars>>

\* the bundles a descriptor is made for: their destinations differ
RoutingBundles == {StoreB1, StoreB2}

RoutingInit ==
    /\ \E b \in RoutingBundles : descriptor = NewDescriptor(b, 1)
    /\ all_peers \in CandidateLists
    /\ routes = <<>>
    /\ algorithm = "EpidemicRouting"
    /\ selected = NoCall

RoutingNext ==
    \/ MarkSent
    \/ IncrementAttempts
    \/ SelectPeers
    \/ SelectPeersAsync
    \/ NodeSelectPeers
    \/ NodeSelectPeersAsync

InitRouting ==
    RoutingInit /\ ServerInit /\ IdleNet /\ IdleCla /\ IdleFs /\ IdleStoreCallers /\ IdleDialer /\ IdleIo

SpecRouting == InitRouting /\ [][RoutingNext]_vars

\* C16: already_sent only grows: no step of any descriptor operation removes
\* an EID from it, and mark_sent(e) leaves it equal to the previous set plus
\* e, so marking an EID that is already present changes nothing.
C16_AlreadySentOnlyGrows ==
    /\ [][descriptor.already_sent \subseteq descriptor'.already_sent]_vars
    /\ [](selected.op = "mark_sent" =>
            /\ descriptor.already_sent = selected.sent \cup {selected.eid}
            /\ selected.eid \in selected.sent => descriptor.already_sent = selected.sent)

C16_Witness ==
    /\ selected.op = "mark_sent"
    /\ selected.eid \in selected.sent
    /\ Cardinality(descriptor.already_sent) = 2
    /\ descriptor.forwarding_attempts > 0

SelectionOps ==
    {"select_peers", "select_peers_async", "node_select_peers", "node_select_peers_async"}

\* C17: once the bundle has been marked sent to a neighbour, no later
\* forwarding selection for the bundle returns that neighbour, whether it is
\* made by the routing algorithm directly or by the node's
\* select_peers_for_forwarding and select_peers_for_forwarding_async.
C17_NeverSelectsSentPeer ==
    selected.op \in SelectionOps =>
       \A k \in 1..Len(selected.peers) : selected.peers[k].eid \notin selected.sent

\* C18: select_peers_for_forwarding returns exactly one handle for each
\* distinct EID that occurs in the candidates and is not in already_sent: no
\* returned peer is in already_sent, no EID is returned twice, and every
\* returned handle is an element of the candidate list.
C18_OneHandlePerEligibleEid ==
    selected.op = "select_peers" =>
       LET hs == selected.handles IN
       /\ \A k \in 1..Len(hs) :
             /\ hs[k] \in 1..Len(all_peers)
             /\ all_peers[hs[k]].eid \notin selected.sent
             /\ selected.peers[k].eid = all_peers[hs[k]].eid
             /\ \A l \in 1..Len(hs) : all_peers[hs[l]].eid = all_peers[hs[k]].eid => l = k
       /\ {all_peers[hs[k]].eid : k \in 1..Len(hs)}
             = {all_peers[i].eid : i \in 1..Len(all_peers)} \ selected.sent

C18_Witness ==
    /\ selected.op = "select_peers"
    /\ Len(all_peers) = 3
    /\ all_peers[1].eid = all_peers[3].eid
    /\ all_peers[1].eid # all_peers[2].eid
    /\ selected.sent = {all_peers[1].eid}
    /\ selected.handles = <<2>>

\* C19: select_peers_for_forwarding_async returns exactly the peers that
\* select_peers_for_forwarding returns for the same descriptor and candidate
\* list, restricted to those whose is_reachable() probe reports true; a peer
\* whose probe reports false is never returned.
C19_AsyncIsSyncRestrictedToReachable ==
    selected.op = "select_peers_async" =>
       LET HandleReachable(h) == all_peers[h].reachable IN
       /\ selected.handles
             = SelectSeq(select_peers_for_forwarding(selected.sent, all_peers),
                         HandleReachable)
       /\ \A k \in 1..Len(selected.handles) : all_peers[selected.handles[k]].reachable

C19_Witness ==
    /\ selected.op = "select_peers_async"
    /\ Len(all_peers) = 3
    /\ all_peers[1].eid = all_peers[2].eid
    /\ ~all_peers[1].reachable
    /\ all_peers[2].reachable
    /\ all_peers[3].reachable
    /\ selected.sent = {}
    /\ selected.handles = <<3>>

\* C38: if the candidates hold, for an EID that is not in already_sent, at
\* least one handle whose probe reports true, select_peers_for_forwarding_async
\* returns a handle for that EID, also when an earlier handle with the same
\* EID is unreachable.
C38_ReachableNeighbourSelected ==
    selected.op = "select_peers_async" =>
       \A i \in 1..Len(all_peers) :
          (all_peers[i].reachable /\ all_peers[i].eid \notin selected.sent) =>
             \E k \in 1..Len(selected.handles) :
                all_peers[selected.handles[k]].eid = all_peers[i].eid

\* C22: epidemic peer selection does not depend on the bundle's destination:
\* a descriptor with the same already_sent set that carries a bundle with a
\* different destination gets the same peers over the same candidate list.
C22_SelectionIgnoresDestination ==
    selected.op = "select_peers" =>
       \A b \in RoutingBundles :
          b.destination # descriptor.bundle.destination =>
             LET other == [NewDescriptor(b, 1) EXCEPT !.already_sent = selected.sent]
                 hs == EpidemicSelectPeers(other, all_peers)
             IN /\ hs = selected.handles
                /\ OwnedPeers(all_peers, hs) = selected.peers

C22_Witness ==
    /\ selected.op = "select_peers"
    /\ Len(all_peers) = 3
    /\ all_peers[1].eid = descriptor.bundle.destination
    /\ all_peers[2].eid = descriptor.bundle.source
    /\ selected.sent = {}
    /\ selected.handles = <<1, 2>>

(***************************************************************************)
(* The routing table and route selection.                                  *)
(***************************************************************************)
\* the entries add_route is called with
RoutePool ==
    {[destination |-> d, next_hop |-> h, cla_type |-> "tcp", cost |-> c, is_active |-> a] :
        d \in RoutingEids, h \in RoutingEids, c \in 1..2, a \in BOOLEAN}

\* RoutingTable::add_route(entry)
AddRoute ==
    /\ Len(routes) < MaxRoutes
    /\ \E entry \in RoutePool : routes' = Append(routes, entry)
    /\ UNCHANGED <<descriptor, all_peers, algorithm, selected>>
    /\ UNCHANGED <<fsVars, storeVars, serverVars, dialVars, ioVars, claVars, netVars>>

\* algorithm.select_routes_for_forwarding(&descriptor, &routing_table)
SelectRoutes ==
    /\ selected' = [op |-> "select_routes", sent |-> descriptor.already_sent,
                    routes |-> AlgSelectRoutes(algorithm, descriptor, routes)]
    /\ UNCHANGED <<descriptor, all_peers, routes, algorithm>>
    /\ UNCHANGED <<fsVars, storeVars, serverVars, dialVars, ioVars, claVars, netVars>>

RoutesInit ==
    /\ descriptor = NewDescriptor(StoreB1, 1)
    /\ all_peers = <<>>
    /\ routes = <<>>
    /\ algorithm = "EpidemicRouting"
    /\ selected = NoCall

RoutesNext ==
    \/ AddRoute
    \/ MarkSent
    \/ SelectRoutes

InitRoutes ==
    RoutesInit /\ ServerInit /\ IdleNet /\ IdleCla /\ IdleFs /\ IdleStoreCallers /\ IdleDialer /\ IdleIo

SpecRoutes == InitRoutes /\ [][RoutesNext]_vars

\* the next hops that have an active route in the table
ActiveNextHops == {routes[i].next_hop : i \in {j \in 1..Len(routes) : routes[j].is_active}}

\* C20: select_routes_for_forwarding returns one copy of an active route for
\* each distinct next_hop that has an active route and is not in
\* already_sent: no inactive route, no route whose next_hop was sent to, and
\* no next_hop twice.
C20_OneRoutePerEligibleNextHop ==
    selected.op = "select_routes" =>
       LET rs == selected.routes IN
       /\ \A k \in 1..Len(rs) :
             /\ rs[k].is_active
             /\ \E i \in 1..Len(routes) : routes[i] = rs[k]
             /\ rs[k].next_hop \notin selected.sent
             /\ \A l \in 1..Len(rs) : rs[l].next_hop = rs[k].next_hop => l = k
       /\ {rs[k].next_hop : k \in 1..Len(rs)} = ActiveNextHops \ selected.sent

\* C21: epidemic routing does not use the routing table:
\* select_routes_for_forwarding returns an empty list for every descriptor
\* and every routing table, whatever active routes the table contains.
C21_RouteSelectionAlwaysEmpty ==
    selected.op = "select_routes" => selected.routes = <<>>

C21_Witness ==
    /\ selected.op = "select_routes"
    /\ Len(routes) = 2
    /\ routes[1].is_active
    /\ routes[2].is_active
    /\ routes[1].next_hop # routes[2].next_hop
    /\ selected.sent = {routes[1].next_hop}
    /\ selected.routes = <<>>

(***************************************************************************)
(* Choosing the algorithm from the configuration.  SpecAlgorithm builds    *)
(* the node's algorithm from a configured name and then runs its peer and  *)
(* route selections over a registry of peers and a growing routing table.  *)
(***************************************************************************)
\* the names a configuration file may carry
AlgorithmNames ==
    { NameEpidemic, NameProphet,
      <<"E", "p", "i", "d", "e", "m", "i", "c">>,
      <<"E", "P", "I", "D", "E", "M", "I", "C">>,
      <<"P", "R", "O", "P", "H", "E", "T">>,
      <<"s", "p", "r", "a", "y">>,
      <<>> }

\* the registries the selections run over
AlgorithmPeerLists ==
    { <<>>,
      << [eid |-> EidA, address |-> "p", reachable |-> TRUE],
         [eid |-> EidB, address |-> "q", reachable |-> FALSE],
         [eid |-> EidA, address |-> "q", reachable |-> FALSE] >>,
      << [eid |-> EidB, address |-> "p", reachable |-> TRUE],
         [eid |-> EidA, address |-> "p", reachable |-> TRUE] >> }

\* DtnNode::with_store_path: RoutingConfig::new(config.get_routing_algorithm_type())
\* and create_algorithm()
CreateAlgorithm ==
    /\ \E name \in AlgorithmNames :
          LET type == get_routing_algorithm_type(name) IN
          /\ algorithm' = create_algorithm(type)
          /\ selected' = [op |-> "create_algorithm", name |-> name, type |-> type,
                          sent |-> descriptor.already_sent]
    /\ UNCHANGED <<descriptor, all_peers, routes>>
    /\ UNCHANGED <<fsVars, storeVars, serverVars, dialVars, ioVars, claVars, netVars>>

AlgorithmInit ==
    /\ descriptor = NewDescriptor(StoreB1, 1)
    /\ all_peers \in AlgorithmPeerLists
    /\ routes = <<>>
    /\ algorithm = "EpidemicRouting"
    /\ selected = NoCall

AlgorithmNext ==
    \/ CreateAlgorithm
    \/ AddRoute
    \/ MarkSent
    \/ SelectPeers
    \/ SelectPeersAsync
    \/ SelectRoutes

InitAlgorithm ==
    AlgorithmInit /\ ServerInit /\ IdleNet /\ IdleCla /\ IdleFs /\ IdleStoreCallers /\ IdleDialer /\ IdleIo

SpecAlgorithm == InitAlgorithm /\ [][AlgorithmNext]_vars

\* the descriptor as it was when the last selection was made
DescriptorAtCall == [descriptor EXCEPT !.already_sent = selected.sent]

\* C23: choosing Prophet, or a name that is not recognised, never fails: the
\* node gets an algorithm, and its peer selections and route selections are
\* EpidemicRouting's for every descriptor, candidate list and routing table.
C23_FallbackIsEpidemic ==
    /\ algorithm # "Unimplemented"
    /\ selected.op = "create_algorithm" =>
          /\ selected.type \in {"Epidemic", "Prophet"}
          /\ selected.type = "Prophet" <=> to_lowercase(selected.name) = NameProphet
    /\ selected.op = "select_peers" =>
          selected.handles = EpidemicSelectPeers(DescriptorAtCall, all_peers)
    /\ selected.op = "select_peers_async" =>
          selected.handles = EpidemicSelectPeersAsync(DescriptorAtCall, all_peers)
    /\ selected.op = "select_routes" =>
          selected.routes = EpidemicSelectRoutes(DescriptorAtCall, routes)
    /\ AlgSelectPeers(algorithm, descriptor, all_peers)
          = EpidemicSelectPeers(descriptor, all_peers)
    /\ AlgSelectPeersAsync(algorithm, descriptor, all_peers)
          = EpidemicSelectPeersAsync(descriptor, all_peers)
    /\ AlgSelectRoutes(algorithm, descriptor, routes)
          = EpidemicSelectRoutes(descriptor, routes)

C23_Witness ==
    /\ selected.op = "create_algorithm"
    /\ selected.name \notin {NameEpidemic, NameProphet}
    /\ selected.type = "Prophet"
    /\ algorithm = "EpidemicRouting"
    /\ Len(all_peers) = 3
    /\ Len(routes) > 0
    /\ descriptor.already_sent # {}

(***************************************************************************)
(* Queries of the routing table.  SpecTable adds routes and runs the three *)
(* queries between the additions.                                          *)
(***************************************************************************)
\* table.get_routes_for_destination(&dest)
GetRoutesForDestination ==
    /\ \E dest \in RoutingEids :
          selected' = [op |-> "get_routes_for_destination", dest |-> dest, n |-> Len(routes),
                       routes |-> get_routes_for_destination(routes, dest)]
    /\ UNCHANGED <<descriptor, all_peers, routes, algorithm>>
    /\ UNCHANGED <<fsVars, storeVars, serverVars, dialVars, ioVars, claVars, netVars>>

\* table.get_all_routes()
GetAllRoutes ==
    /\ \E rs \in get_all_routes(routes) :
          selected' = [op |-> "get_all_routes", n |-> Len(routes), routes |-> rs]
    /\ UNCHANGED <<descriptor, all_peers, routes, algorithm>>
    /\ UNCHANGED <<fsVars, storeVars, serverVars, dialVars, ioVars, claVars, netVars>>

\* table.find_best_route(&dest)
FindBestRoute ==
    /\ \E dest \in RoutingEids :
          selected' = [op |-> "find_best_route", dest |-> dest, n |-> Len(routes),
                       routes |-> find_best_route(routes, dest)]
    /\ UNCHANGED <<descriptor, all_peers, routes, algorithm>>
    /\ UNCHANGED <<fsVars, storeVars, serverVars, dialVars, ioVars, claVars, netVars>>

TableNext ==
    \/ AddRoute
    \/ GetRoutesForDestination
    \/ GetAllRoutes
    \/ FindBestRoute

InitTable ==
    RoutesInit /\ ServerInit /\ IdleNet /\ IdleCla /\ IdleFs /\ IdleStoreCallers /\ IdleDialer /\ IdleIo

SpecTable == InitTable /\ [][TableNext]_vars

TableQueries == {"get_routes_for_destination", "get_all_routes", "find_best_route"}

\* the table as it was when the last query was made
TableAtCall == SubSeq(routes, 1, selected.n)

\* how many times an entry occurs in a sequence
Occurrences(rs, r) == Cardinality({i \in 1..Len(rs) : rs[i] = r})

\* C24: after any sequence of add_route calls no query returns an entry with
\* is_active = false, and get_all_routes returns every active entry that was
\* added (as many times as it was added) and nothing else.
C24_QueriesReturnOnlyActive ==
    selected.op \in TableQueries =>
       /\ \A k \in 1..Len(selected.routes) :
             /\ selected.routes[k].is_active
             /\ \E i \in 1..Len(TableAtCall) : TableAtCall[i] = selected.routes[k]
       /\ selected.op = "get_all_routes" =>
             \A r \in RoutePool :
                Occurrences(selected.routes, r)
                   = IF r.is_active THEN Occurrences(TableAtCall, r) ELSE 0

C24_Witness ==
    /\ selected.op = "get_all_routes"
    /\ selected.n = 2
    /\ ~routes[1].is_active
    /\ routes[2].is_active
    /\ routes[1].destination = routes[2].destination
    /\ selected.routes = <<routes[2]>>

\* the active entries for the destination of the last query
ActiveAtCall == get_routes_for_destination(TableAtCall, selected.dest)

\* C25: find_best_route(dest) returns an active entry for dest whose cost is
\* at most the cost of every active entry for dest, and returns none exactly
\* when dest has no active entry; a cheaper inactive entry does not displace
\* the cheapest active one.
C25_BestRouteIsCheapestActive ==
    selected.op = "find_best_route" =>
       /\ Len(selected.routes) <= 1
       /\ selected.routes = <<>> <=>
             ~\E i \in 1..Len(TableAtCall) :
                 TableAtCall[i].destination = selected.dest /\ TableAtCall[i].is_active
       /\ selected.routes # <<>> =>
             LET best == selected.routes[1] IN
             /\ best.is_active
             /\ best.destination = selected.dest
             /\ \E i \in 1..Len(TableAtCall) : TableAtCall[i] = best
             /\ \A i \in 1..Len(TableAtCall) :
                   (TableAtCall[i].destination = selected.dest /\ TableAtCall[i].is_active)
                      => best.cost <= TableAtCall[i].cost

C25_Witness ==
    /\ selected.op = "find_best_route"
    /\ selected.n = 2
    /\ routes[1].destination = selected.dest
    /\ routes[2].destination = selected.dest
    /\ ~routes[1].is_active
    /\ routes[2].is_active
    /\ routes[1].cost < routes[2].cost
    /\ selected.routes = <<routes[2]>>

(***************************************************************************)
(* The CLA manager: register, list_active and the activation tasks.  The   *)
(* write lock is held from the insert to the end of its block with no      *)
(* await inside, so the test-and-insert is one step; the spawn follows it. *)
(***************************************************************************)
\* the convergence layers handed to register: activate() returns Ok ("ok"),
\* returns an error ("fail") or never returns ("forever", an accept loop)
ClaPool ==
    { [id |-> 1, address |-> "x", kind |-> "ok"],
      [id |-> 2, address |-> "x", kind |-> "fail"],
      [id |-> 3, address |-> "y", kind |-> "forever"] }

ClaOf(id) == CHOOSE cla \in ClaPool : cla.id = id

\* a register that never looks at the result of the insert
RegisterInsert_Unchecked(c) ==
    /\ callers[c].pc = "idle"
    /\ nCalls < MaxCalls
    /\ nCalls' = nCalls + 1
    /\ \E cla \in ClaPool :
          /\ active_clas' = active_clas \cup {cla.address}
          /\ callers' = [callers EXCEPT ![c].pc = "spawn", ![c].cla = cla.id]
    /\ UNCHANGED <<tasks, listed, units>>
    /\ UNCHANGED <<fsVars, storeVars, serverVars, dialVars, ioVars, routeVars, netVars>>

\* register(cla), up to the end of the locked block: the address is inserted,
\* and the call returns at once when it was present
RegisterInsert(c) ==
    /\ callers[c].pc = "idle"
    /\ nCalls < MaxCalls
    /\ nCalls' = nCalls + 1
    /\ \E cla \in ClaPool :
          IF cla.address \in active_clas
          THEN UNCHANGED <<active_clas, callers>>
          ELSE /\ active_clas' = active_clas \cup {cla.address}
               /\ callers' = [callers EXCEPT ![c].pc = "spawn", ![c].cla = cla.id]
    /\ UNCHANGED <<tasks, listed, units>>
    /\ UNCHANGED <<fsVars, storeVars, serverVars, dialVars, ioVars, routeVars, netVars>>

\* a register that runs activate() itself and returns when it has returned
RegisterSpawn_Inline(c) ==
    /\ callers[c].pc = "spawn"
    /\ ClaOf(callers[c].cla).kind # "forever"
    /\ tasks' = Append(tasks, [cla |-> callers[c].cla,
                               state |-> IF ClaOf(callers[c].cla).kind = "ok"
                                         THEN "ok" ELSE "err"])
    /\ callers' = [callers EXCEPT ![c].pc = "idle", ![c].cla = 0]
    /\ UNCHANGED <<active_clas, nCalls, listed, units>>
    /\ UNCHANGED <<fsVars, storeVars, serverVars, dialVars, ioVars, routeVars, netVars>>

\* register(cla), the rest: tokio::spawn of the activation, then return
RegisterSpawn(c) ==
    /\ callers[c].pc = "spawn"
    /\ tasks' = Append(tasks, [cla |-> callers[c].cla, state |-> "spawned"])
    /\ callers' = [callers EXCEPT ![c].pc = "idle", ![c].cla = 0]
    /\ UNCHANGED <<active_clas, nCalls, listed, units>>
    /\ UNCHANGED <<fsVars, storeVars, serverVars, dialVars, ioVars, routeVars, netVars>>

\* a spawned task calls cla.activate()
ActivateStart ==
    /\ \E k \in 1..Len(tasks) :
          /\ tasks[k].state = "spawned"
          /\ tasks' = [tasks EXCEPT ![k].state = "running"]
    /\ UNCHANGED <<active_clas, callers, nCalls, listed, units>>
    /\ UNCHANGED <<fsVars, storeVars, serverVars, dialVars, ioVars, routeVars, netVars>>

\* a task that drops the address of a peer whose activation failed
ActivateReturn_Unregister ==
    /\ \E k \in 1..Len(tasks) :
          /\ tasks[k].state = "running"
          /\ ClaOf(tasks[k].cla).kind # "forever"
          /\ tasks' = [tasks EXCEPT ![k].state =
                          IF ClaOf(tasks[k].cla).kind = "ok" THEN "ok" ELSE "err"]
          /\ active_clas' = IF ClaOf(tasks[k].cla).kind = "ok" THEN active_clas
                            ELSE active_clas \ {ClaOf(tasks[k].cla).address}
    /\ UNCHANGED <<callers, nCalls, listed, units>>
    /\ UNCHANGED <<fsVars, storeVars, serverVars, dialVars, ioVars, routeVars, netVars>>

\* activate() returns and the task logs the result
ActivateReturn ==
    /\ \E k \in 1..Len(tasks) :
          /\ tasks[k].state = "running"
          /\ ClaOf(tasks[k].cla).kind # "forever"
          /\ tasks' = [tasks EXCEPT ![k].state =
                          IF ClaOf(tasks[k].cla).kind = "ok" THEN "ok" ELSE "err"]
    /\ UNCHANGED <<active_clas, callers, nCalls, listed, units>>
    /\ UNCHANGED <<fsVars, storeVars, serverVars, dialVars, ioVars, routeVars, netVars>>

\* list_active(): a copy of the set, taken under the read lock
ListActive(c) ==
    /\ callers[c].pc = "idle"
    /\ listed' = [done |-> TRUE, addrs |-> active_clas]
    /\ UNCHANGED <<active_clas, callers, tasks, nCalls, units>>
    /\ UNCHANGED <<fsVars, storeVars, serverVars, dialVars, ioVars, routeVars, netVars>>

ClaNext ==
    \/ \E c \in Callers : RegisterInsert(c)
    \/ \E c \in Callers : RegisterSpawn(c)
    \/ \E c \in Callers : ListActive(c)
    \/ ActivateStart
    \/ ActivateReturn

InitCla ==
    IdleCla /\ ServerInit /\ IdleNet /\ IdleFs /\ IdleStoreCallers /\ IdleDialer /\ IdleIo /\ IdleRouting

SpecCla == InitCla /\ [][ClaNext]_vars

\* the runtime runs every spawned task and every caller that can go on
SpecClaLive ==
    /\ SpecCla
    /\ \A c \in Callers : WF_vars(RegisterSpawn(c))
    /\ WF_vars(ActivateStart)
    /\ WF_vars(ActivateReturn)

Addresses == {cla.address : cla \in ClaPool}

\* the activation tasks spawned for an address
TasksFor(a) == {k \in 1..Len(tasks) : ClaOf(tasks[k].cla).address = a}

\* the register calls for an address that are past the insert
Inserting(a) == {c \in Callers : callers[c].pc = "spawn" /\ ClaOf(callers[c].cla).address = a}

\* C26: registering an identity that is already registered is a no-op: over
\* any number of register calls for one address, by any caller and in any
\* interleaving, the address is registered once and activate() is started
\* for it exactly once (by the call that inserted it).
C26_RegisterOncePerIdentity ==
    /\ \A a \in Addresses :
          Cardinality(TasksFor(a)) + Cardinality(Inserting(a))
             = IF a \in active_clas THEN 1 ELSE 0
    /\ listed.addrs \subseteq active_clas

\* a second call for the address came and went between the insert and the
\* spawn of the first
C26_Witness ==
    /\ nCalls = 2
    /\ callers[1].pc = "spawn"
    /\ callers[2].pc = "idle"
    /\ active_clas = {"x"}
    /\ tasks = <<>>

\* the tasks that have called activate() of a convergence layer
Attempts(id) == {k \in 1..Len(tasks) : tasks[k].cla = id /\ tasks[k].state # "spawned"}

FailingClas == {cla \in ClaPool : cla.kind = "fail"}

\* C27: a peer whose activate() fails stays in the registry: once its
\* activation has returned the error, its address is registered and stays
\* registered, every listing made from then on contains it, and its
\* activate() has been attempted exactly once; a registered failing peer
\* does get its one attempt.
C27_FailedActivationStaysRegistered ==
    /\ [](\A k \in 1..Len(tasks) :
             tasks[k].state = "err" =>
                /\ ClaOf(tasks[k].cla).address \in active_clas
                /\ Attempts(tasks[k].cla) = {k})
    /\ [][active_clas \subseteq active_clas']_vars
    /\ [][\A c \in Callers : ListActive(c) =>
             \A k \in 1..Len(tasks) :
                tasks[k].state = "err" => ClaOf(tasks[k].cla).address \in listed'.addrs]_vars
    /\ \A cla \in FailingClas :
          (\E k \in 1..Len(tasks) : tasks[k].cla = cla.id)
             ~> (\E k \in 1..Len(tasks) : tasks[k].cla = cla.id /\ tasks[k].state = "err")

C27_Witness ==
    /\ nCalls = 3
    /\ Len(tasks) = 1
    /\ tasks[1].cla = 2
    /\ tasks[1].state = "err"
    /\ listed = [done |-> TRUE, addrs |-> {"x"}]
    /\ \A c \in Callers : callers[c].pc = "idle"

\* C28: register returns without waiting for activate(): a call that has
\* inserted its address can always go on to its return, and does return,
\* whatever the activations are doing, one that never returns included; and
\* a caller that is not inside a register can always list the registry.
C28_RegisterDoesNotWaitForActivate ==
    /\ [](\A c \in Callers :
             /\ callers[c].pc = "spawn" => ENABLED RegisterSpawn(c)
             /\ callers[c].pc = "idle" => ENABLED ListActive(c))
    /\ \A c \in Callers : (callers[c].pc = "spawn") ~> (callers[c].pc = "idle")

\* the accept loop is running, and a peer registered after it is in a
\* listing made after it
C28_Witness ==
    /\ Len(tasks) = 2
    /\ ClaOf(tasks[1].cla).kind = "forever"
    /\ tasks[1].state = "running"
    /\ listed = [done |-> TRUE, addrs |-> {"x", "y"}]
    /\ \A c \in Callers : callers[c].pc = "idle"

(***************************************************************************)
(* The CLA manager: notify_receive and the callback tasks it spawns.       *)
(***************************************************************************)
\* the worker threads of the runtime the tasks are spawned on: one, the
\* current-thread runtime that #[tokio::test] builds
Workers == 1

\* the callbacks that are being run: cb(bundle) is a synchronous call inside
\* the task, so each keeps the worker that runs it until it returns
InCallback == {k \in 1..Len(units) : units[k].state = "running"}

\* notify_receive(bundle): clone the callback, tokio::spawn a task for it,
\* return (the function is not async and awaits nothing)
NotifyReceive(c) ==
    /\ callers[c].pc = "idle"
    /\ Len(units) < MaxNotify
    /\ \E b \in WireBundles :
          /\ callers' = [callers EXCEPT ![c].notified = Append(@, b)]
          /\ units' = Append(units, [bundle |-> b, state |-> "spawned"])
    /\ UNCHANGED <<active_clas, tasks, nCalls, listed>>
    /\ UNCHANGED <<fsVars, storeVars, serverVars, dialVars, ioVars, routeVars, netVars>>

\* a worker that is not inside a callback takes a spawned task, which calls
\* cb(bundle)
UnitRun ==
    /\ Cardinality(InCallback) < Workers
    /\ \E k \in 1..Len(units) :
          /\ units[k].state = "spawned"
          /\ units' = [units EXCEPT ![k].state = "running"]
    /\ UNCHANGED <<active_clas, callers, tasks, nCalls, listed>>
    /\ UNCHANGED <<fsVars, storeVars, serverVars, dialVars, ioVars, routeVars, netVars>>

\* cb(bundle) returns, if it ever does
UnitReturn ==
    /\ \E k \in 1..Len(units) :
          /\ units[k].state = "running"
          /\ units' = [units EXCEPT ![k].state = "done"]
    /\ UNCHANGED <<active_clas, callers, tasks, nCalls, listed>>
    /\ UNCHANGED <<fsVars, storeVars, serverVars, dialVars, ioVars, routeVars, netVars>>

NotifyNext ==
    \/ \E c \in Callers : NotifyReceive(c)
    \/ UnitRun
    \/ UnitReturn

InitNotify ==
    IdleCla /\ ServerInit /\ IdleNet /\ IdleFs /\ IdleStoreCallers /\ IdleDialer /\ IdleIo /\ IdleRouting

SpecNotify == InitNotify /\ [][NotifyNext]_vars

\* the runtime runs a spawned task when a worker is free to take one; a
\* callback need not return
SpecNotifyLive == SpecNotify /\ WF_vars(UnitRun)

\* how many times a bundle occurs in a sequence of bundles
CountIn(bs, b) == Cardinality({i \in 1..Len(bs) : bs[i] = b})

UnitBundles == [k \in 1..Len(units) |-> units[k].bundle]

\* C29: every call notify_receive(b) leads to exactly one invocation of the
\* callback with b, in a task of its own: there is one task for each call,
\* carrying the bundle of the call, each task gets to invoke the callback,
\* and a caller can make its next call whatever the earlier callbacks are
\* doing, one that never returns included.
C29_OneCallbackTaskPerNotify ==
    /\ [](\A b \in WireBundles :
             CountIn(UnitBundles, b)
                = CountIn(callers[1].notified, b) + CountIn(callers[2].notified, b))
    /\ [](\A c \in Callers : Len(units) < MaxNotify => ENABLED NotifyReceive(c))
    /\ \A k \in 1..MaxNotify :
          (Len(units) >= k) ~> (Len(units) >= k /\ units[k].state # "spawned")

(***************************************************************************)
(* The dialer: TcpClaDialer::activate and send_bundle.                     *)
(***************************************************************************)
\* the bundles that may be in the store when the dialer is activated
DialBundles == {StoreB1, StoreB2, StoreB3}

\* what the dialer's read of the acknowledgment may return: OK, ERROR, ACK,
\* nothing (the peer closed), a byte that is no UTF-8
AckReplies == {AckOK, AckERROR, <<65, 67, 75>>, <<>>, <<255>>}

\* std::str::from_utf8 succeeds (on the replies of the model: ASCII only)
IsUtf8(bytes) == \A i \in 1..Len(bytes) : bytes[i] < 128

\* the activation starts at any time of the clock: bundles of the store may
\* have expired before it
DialerInit ==
    /\ \E S \in SUBSET DialBundles : store = StoreOf(S)
    /\ dispatched = NoFiles
    /\ now \in 2..MaxNow
    /\ IdleDialer

\* a loop that stops after its first bundle
DialAfter_StopEarly(rest) == "done_ok"

\* where the for loop goes after a bundle, given the identifiers left
DialAfter(rest) == IF rest = <<>> THEN "done_ok" ELSE "load"

\* a dialer that dispatches whatever send_bundle returned
OnSendResult_Always(ok) ==
    /\ dpc' = "dispatch"
    /\ UNCHANGED dIds

\* if send_bundle(..).await.is_ok() { dispatch_one } else { eprintln }
OnSendResult(ok) ==
    IF ok
    THEN /\ dpc' = "dispatch"
         /\ UNCHANGED dIds
    ELSE /\ dpc' = DialAfter(Tail(dIds))
         /\ dIds' = Tail(dIds)

\* an activation that tries the connect a second time when the first fails
DialConnect_Retry ==
    /\ dpc = "connect"
    /\ connects' = connects + 1
    /\ \/ /\ connects = 0
          /\ UNCHANGED <<dpc, dAbort, dIds, dStart>>
       \/ /\ connects > 0
          /\ dpc' = "done_err"
          /\ dAbort' = "connect"
          /\ UNCHANGED <<dIds, dStart>>
       \/ \E ids \in list(store) :
             /\ dIds' = ids
             /\ dStart' = store
             /\ dpc' = DialAfter(ids)
             /\ UNCHANGED dAbort
    /\ UNCHANGED <<dBundle, wire, outcomes, dMoved, interfered>>
    /\ UNCHANGED <<lsn, conns>>
    /\ UNCHANGED <<fsVars, serverVars, storeVars, ioVars, routeVars, claVars>>

\* activate() is called: it calls TcpStream::connect and waits for the
\* connection to be made or refused, for as long as that takes
DialStart ==
    /\ dpc = "idle"
    /\ dpc' = "connect"
    /\ UNCHANGED <<dIds, dBundle, dStart, wire, outcomes, dMoved, dAbort, interfered>>
    /\ UNCHANGED <<fsVars, serverVars, storeVars, ioVars, routeVars, claVars, netVars>>

\* TcpStream::connect(..).await? completes; on success BundleStore::new and
\* store.list()? read the store directory as it is then
DialConnect ==
    /\ dpc = "connect"
    /\ connects' = connects + 1
    /\ \/ /\ dpc' = "done_err"
          /\ dAbort' = "connect"
          /\ UNCHANGED <<dIds, dStart>>
       \/ \E ids \in list(store) :
             /\ dIds' = ids
             /\ dStart' = store
             /\ dpc' = DialAfter(ids)
             /\ UNCHANGED dAbort
    /\ UNCHANGED <<dBundle, wire, outcomes, dMoved, interfered>>
    /\ UNCHANGED <<lsn, conns>>
    /\ UNCHANGED <<fsVars, serverVars, storeVars, ioVars, routeVars, claVars>>

\* let bundle = store.load_by_partial_id(&id)?
DialLoad ==
    /\ dpc = "load"
    /\ \E r \in load_by_partial_id(store, Head(dIds)) :
          IF r.ok
          THEN /\ dBundle' = r.val
               /\ dpc' = "write"
               /\ UNCHANGED dAbort
          ELSE /\ dpc' = "done_err"
               /\ dAbort' = "load"
               /\ UNCHANGED dBundle
    /\ UNCHANGED <<dIds, dStart, wire, outcomes, dMoved, interfered>>
    /\ UNCHANGED <<fsVars, serverVars, storeVars, ioVars, routeVars, claVars, netVars>>

\* the frame send_bundle writes for the bundle loaded
DialFrame == Frame(Encode(dBundle))

\* send_bundle: stream.write_all(&len.to_be_bytes()).await?; the write may
\* fail after any number of the 4 bytes
DialWrite ==
    /\ dpc = "write"
    /\ LET id == filename_for(dBundle) IN
       \/ /\ wire' = Append(wire, [id |-> id, bytes |-> SubSeq(DialFrame, 1, 4),
                                   complete |-> FALSE])
          /\ dpc' = "write_body"
          /\ UNCHANGED <<dIds, outcomes>>
       \/ \E k \in 0..3 :
          /\ wire' = Append(wire, [id |-> id, bytes |-> SubSeq(DialFrame, 1, k),
                                   complete |-> FALSE])
          /\ outcomes' = Append(outcomes, [id |-> id, result |-> "write_error", ack |-> <<>>])
          /\ OnSendResult(FALSE)
    /\ UNCHANGED <<dBundle, dStart, dMoved, dAbort, interfered>>
    /\ UNCHANGED <<fsVars, serverVars, storeVars, ioVars, routeVars, claVars, netVars>>

\* send_bundle: stream.write_all(&encoded).await?; the write may fail after
\* any number of the bytes of the encoding
DialWriteBody ==
    /\ dpc = "write_body"
    /\ LET id == filename_for(dBundle)
           last == Len(wire)
       IN
       \/ /\ wire' = [wire EXCEPT ![last] = [id |-> id, bytes |-> DialFrame,
                                              complete |-> TRUE]]
          /\ dpc' = "ack"
          /\ UNCHANGED <<dIds, outcomes>>
       \/ \E k \in 4..(Len(DialFrame) - 1) :
          /\ wire' = [wire EXCEPT ![last].bytes = SubSeq(DialFrame, 1, k)]
          /\ outcomes' = Append(outcomes, [id |-> id, result |-> "write_error", ack |-> <<>>])
          /\ OnSendResult(FALSE)
    /\ UNCHANGED <<dBundle, dStart, dMoved, dAbort, interfered>>
    /\ UNCHANGED <<fsVars, serverVars, storeVars, ioVars, routeVars, claVars, netVars>>

\* send_bundle: stream.read(&mut buf).await?, std::str::from_utf8(&buf[..n])?
DialAck ==
    /\ dpc = "ack"
    /\ LET id == filename_for(dBundle) IN
       \/ /\ outcomes' = Append(outcomes, [id |-> id, result |-> "read_error", ack |-> <<>>])
          /\ OnSendResult(FALSE)
       \/ \E a \in AckReplies :
          /\ outcomes' = Append(outcomes,
                [id |-> id, result |-> IF IsUtf8(a) THEN "ok" ELSE "utf8_error", ack |-> a])
          /\ OnSendResult(IsUtf8(a))
    /\ UNCHANGED <<dBundle, dStart, wire, dMoved, dAbort, interfered>>
    /\ UNCHANGED <<fsVars, serverVars, storeVars, ioVars, routeVars, claVars, netVars>>

\* store.dispatch_one(&bundle, dispatched_dir)?
DialDispatch ==
    /\ dpc = "dispatch"
    /\ LET r == dispatch_one(store, dispatched, dBundle) IN
       /\ store' = r.src
       /\ dispatched' = r.dst
       /\ IF r.ok
          THEN /\ dMoved' = dMoved \cup {filename_for(dBundle)}
               /\ dpc' = DialAfter(Tail(dIds))
               /\ dIds' = Tail(dIds)
               /\ UNCHANGED dAbort
          ELSE /\ dpc' = "done_err"
               /\ dAbort' = "dispatch"
               /\ UNCHANGED <<dMoved, dIds>>
    /\ UNCHANGED <<now, dBundle, dStart, wire, outcomes, interfered>>
    /\ UNCHANGED <<serverVars, storeVars, ioVars, routeVars, claVars, netVars>>

\* the activation has been called and has not returned
Running == dpc \in {"connect", "load", "write", "write_body", "ack", "dispatch"}

\* the activation has listed the store and has not returned
Listed == dpc \in {"load", "write", "write_body", "ack", "dispatch"}

\* another actor's cleanup_expired removes the file of a bundle that has
\* expired
OtherRemove ==
    /\ Running
    /\ \E id \in DOMAIN store :
          /\ load(store, id).ok
          /\ is_expired(load(store, id).val, now)
          /\ store' = Remove(store, id)
    /\ interfered' = (interfered \/ Listed)
    /\ UNCHANGED <<dispatched, now, dpc, dIds, dBundle, dStart, wire, outcomes, dMoved, dAbort>>
    /\ UNCHANGED <<serverVars, storeVars, ioVars, routeVars, claVars, netVars>>

\* another actor dispatches a file of the store (another activation)
OtherDispatch ==
    /\ Running
    /\ \E id \in DOMAIN store :
          /\ store' = Remove(store, id)
          /\ dispatched' = Put(dispatched, id, store[id])
    /\ interfered' = (interfered \/ Listed)
    /\ UNCHANGED <<now, dpc, dIds, dBundle, dStart, wire, outcomes, dMoved, dAbort>>
    /\ UNCHANGED <<serverVars, storeVars, ioVars, routeVars, claVars, netVars>>

DialerNext ==
    \/ DialStart
    \/ DialConnect
    \/ DialLoad
    \/ DialWrite
    \/ DialWriteBody
    \/ DialAck
    \/ DialDispatch
    \/ OtherRemove
    \/ OtherDispatch

InitDialer == DialerInit /\ ServerInit /\ IdleNet /\ IdleCla /\ IdleStoreCallers /\ IdleIo /\ IdleRouting

SpecDialer == InitDialer /\ [][DialerNext]_vars

\* one activation of the dialer and one of the listener, each of which may
\* meet a transport failure
TransportNext ==
    \/ DialerNext
    \/ ListenerBind

\* the dialer has all its bundles to send, one of them expired
InitTransport ==
    /\ store = StoreOf(DialBundles)
    /\ dispatched = NoFiles
    /\ now = 3
    /\ IdleDialer
    /\ ServerInit /\ IdleNet /\ IdleCla /\ IdleStoreCallers /\ IdleIo /\ IdleRouting

SpecTransport == InitTransport /\ [][TransportNext]_vars

(***************************************************************************)
(* Properties of the dialer.                                               *)
(***************************************************************************)
Done == dpc \in {"done_ok", "done_err"}

WireOf(id) == {j \in 1..Len(wire) : wire[j].id = id}

OutcomesOf(id) == {i \in 1..Len(outcomes) : outcomes[i].id = id}

\* C1: the activation dispatches a bundle only when its frame was written
\* completely and answered with OK; a bundle answered with anything else is
\* still in the active store when the activation ends.
C1_DispatchOnlyOnOk ==
    /\ \A id \in dMoved :
          /\ \E j \in WireOf(id) : wire[j].complete
          /\ \E i \in OutcomesOf(id) : outcomes[i].ack = AckOK
    /\ (Done /\ ~interfered) =>
          \A i \in 1..Len(outcomes) :
             outcomes[i].ack # AckOK => outcomes[i].id \in DOMAIN store

\* C6: a bundle whose frame write or acknowledgment read failed is not
\* dispatched by the activation, is sent at most once in it, and (unless
\* another actor removed it) is still in the active store with the bytes it
\* had when the activation listed the store.
C6_FailedSendStays ==
    \A i \in 1..Len(outcomes) :
       outcomes[i].result # "ok" =>
          /\ outcomes[i].id \notin dMoved
          /\ Cardinality(WireOf(outcomes[i].id)) = 1
          /\ Cardinality(OutcomesOf(outcomes[i].id)) = 1
          /\ ~interfered =>
                /\ outcomes[i].id \in DOMAIN store
                /\ store[outcomes[i].id] = dStart[outcomes[i].id]
                /\ outcomes[i].id \notin DOMAIN dispatched

C6_Witness ==
    /\ dpc = "done_ok"
    /\ ~interfered
    /\ Len(outcomes) = 3
    /\ outcomes[1].result = "write_error"
    /\ outcomes[2].result = "read_error"
    /\ outcomes[3].result = "ok"
    /\ outcomes[3].id \in dMoved

AllAcked ==
    /\ dAbort # "connect"
    /\ \A i \in 1..Len(outcomes) : outcomes[i].result = "ok" /\ outcomes[i].ack = AckOK

\* C7: when an activation has returned, the receiver acknowledged every frame
\* with OK and no other actor changed the store, the activation returned
\* success, wrote exactly one frame (the complete frame of its record) for each
\* bundle that was in the store at the listing, and each of these is in the
\* dispatched directory, with the same bytes, and not in the active store.
C7_AllSentOnceAndMoved ==
    (Done /\ ~interfered /\ AllAcked) =>
       /\ dpc = "done_ok"
       /\ Len(wire) = Cardinality(DOMAIN dStart)
       /\ \A id \in DOMAIN dStart :
             /\ Cardinality(WireOf(id)) = 1
             /\ \A j \in WireOf(id) : wire[j].complete /\ wire[j].bytes = Frame(dStart[id])
             /\ id \in DOMAIN dispatched
             /\ dispatched[id] = dStart[id]
             /\ id \notin DOMAIN store

C7_Witness ==
    /\ dpc = "done_ok"
    /\ ~interfered
    /\ AllAcked
    /\ Cardinality(DOMAIN dStart) = 3
    /\ Len(wire) = 3
    /\ DOMAIN store = {}

\* C32: transport failures are propagated from activate() with no retry: an
\* activation makes at most one bind or connect attempt; a listener whose
\* bind failed and a dialer whose connect failed have returned an error
\* after exactly one attempt, and the failed dialer has written nothing and
\* dispatched nothing and has not listed the store: every step the
\* activation took, the failing one included, left both directories as they
\* were (other actors may have changed them while the connect was waiting).
C32_TransportFailurePropagated ==
    /\ [](connects <= 1 /\ lsn.binds <= 1)
    /\ [](dAbort = "connect" =>
             /\ dpc = "done_err"
             /\ connects = 1
             /\ wire = <<>>
             /\ outcomes = <<>>
             /\ dMoved = {}
             /\ dIds = <<>>
             /\ dStart = NoFiles)
    /\ [](lsn.err = "bind" => lsn.pc = "done_err" /\ lsn.binds = 1 /\ conns = <<>>)
    /\ [][(dAbort = "connect" \/ dAbort' = "connect" \/ (dpc = "idle" /\ dpc' # dpc)
              \/ (dpc = "connect" /\ dpc' # dpc))
            => (store' = store /\ dispatched' = dispatched)]_vars

\* the connect of a dialer with three bundles to send was refused and the
\* listener's bind failed
C32_Witness ==
    /\ dAbort = "connect"
    /\ lsn.err = "bind"
    /\ Cardinality(DOMAIN store) = 3
    /\ connects = 1

\* the bundle the activation listed under an identifier
ListedBundle(id) == Decode(dStart[id]).val

\* C36: a dialer activation never transmits a bundle that is expired at the
\* moment it is sent: no frame is written for an expired bundle and no
\* expired bundle is moved to the dispatched directory.
C36_ExpiredNotSent ==
    /\ \A j \in 1..Len(wire) : ~is_expired(ListedBundle(wire[j].id), now)
    /\ \A id \in dMoved : ~is_expired(ListedBundle(id), now)

\* C8: an activation does not abort because a bundle it listed has been
\* removed from the store by another actor before it is loaded or dispatched.
C8_ToleratesRemoval ==
    dpc = "done_err" => dAbort \notin {"load", "dispatch"}


=============================================================================
